---- MODULE Spec2Model ----
(***************************************************************************)
(* The instruction dispatcher of pinocchio-complex (lib.rs,                *)
(* process_instruction) and the handlers it forwards to (system/*.rs,      *)
(* token/*.rs).  One dispatch call is one step: the host hands the program *)
(* an account list and an instruction buffer, the program decodes,         *)
(* validates and either fails or reaches the invocation primitive (CPI).   *)
(*                                                                         *)
(* Rust indexes from 0, TLA+ sequences from 1: Acc(accounts, i) is the     *)
(* source's accounts[i], Slice(data, a, b) is the source's data[a..b].     *)
(***************************************************************************)
EXTENDS Integers, Sequences, FiniteSets, TLC

VARIABLES pc, instruction_data, accounts, entry_accounts, out,
          authorization_proofs, ledger, calls

vars == <<pc, instruction_data, accounts, entry_accounts, out,
          authorization_proofs, ledger, calls>>

-----------------------------------------------------------------------------
(* Bounds of the explored inputs.                                          *)

MaxAccounts == 5

MaxTrailing == 1

(* The longest account list of the end-to-end scenarios.                   *)
MaxScenarioAccounts == 3

(* The longest sequence of calls made against one ledger.                  *)
MaxCalls == 3

-----------------------------------------------------------------------------
(* Discriminators, lib.rs system_discriminator / token_discriminator.      *)

SYS_ASSIGN == 0
SYS_TRANSFER == 1
SYS_CREATE_ACCOUNT == 2
SYS_ALLOCATE == 3
SYS_ALLOCATE_WITH_SEED == 4
SYS_ASSIGN_WITH_SEED == 5
SYS_CREATE_ACCOUNT_WITH_SEED == 6
SYS_ADVANCE_NONCE == 7
SYS_WITHDRAW_NONCE == 8
SYS_INIT_NONCE == 9
SYS_AUTHORIZE_NONCE == 10
SYS_TRANSFER_WITH_SEED == 11
SYS_UPDATE_NONCE == 12

TOKEN_INIT_MINT == 20
TOKEN_INIT_ACCOUNT == 21
TOKEN_TRANSFER == 22
TOKEN_APPROVE == 23
TOKEN_REVOKE == 24
TOKEN_SET_AUTHORITY == 25
TOKEN_MINT_TO == 26
TOKEN_BURN == 27
TOKEN_CLOSE_ACCOUNT == 28
TOKEN_FREEZE == 29
TOKEN_THAW == 30
TOKEN_TRANSFER_CHECKED == 31
TOKEN_APPROVE_CHECKED == 32
TOKEN_MINT_TO_CHECKED == 33
TOKEN_BURN_CHECKED == 34
TOKEN_SYNC_NATIVE == 35

-----------------------------------------------------------------------------
(* ProgramError values the program returns, and success.                   *)

Ok == "Ok"
InvalidInstructionData == "InvalidInstructionData"
NotEnoughAccountKeys == "NotEnoughAccountKeys"
MissingRequiredSignature == "MissingRequiredSignature"
InvalidAccountData == "InvalidAccountData"
(* A failure reported by the invoked program through the primitive.        *)
Custom == "Custom"

CpiResults == {Ok, Custom}

-----------------------------------------------------------------------------
(* Helpers for the source's 0-based indexing and Option values.            *)

Acc(accts, i) == accts[i + 1]

At(s, i) == s[i + 1]

Slice(s, a, b) == SubSeq(s, a + 1, b)

SliceFrom(s, a) == SubSeq(s, a + 1, Len(s))

None == <<>>

Some(x) == <<x>>

(* The same 8 bytes read most significant byte first.                      *)
from_be_bytes(b) ==
    [k \in 1..4 |-> b[10 - 2 * k] + 256 * b[9 - 2 * k]]

(* u64::from_le_bytes: the value of 8 little-endian bytes, held as four    *)
(* 16-bit limbs, least significant first (the value itself exceeds the     *)
(* checker's integers).                                                    *)
from_le_bytes(b) ==
    [k \in 1..4 |-> b[2 * k - 1] + 256 * b[2 * k]]

(* u64::to_le_bytes, by which a caller builds the payload: the 8 bytes of  *)
(* a value, least significant first.                                       *)
to_le_bytes(x) ==
    [i \in 1..8 |-> IF i % 2 = 1 THEN x[(i + 1) \div 2] % 256
                                   ELSE x[i \div 2] \div 256]

(* The steps of validation, recorded in the order the code executes them.  *)
Chk(c, i) == [check |-> c, index |-> i]
ChkEmpty == Chk("empty", -1)
ChkOpcode == Chk("opcode", -1)
ChkLength == Chk("length", -1)
ChkField == Chk("field", -1)
ChkCount == Chk("count", -1)
(* A payload field bound to a value by the dispatcher (from_le_bytes, an   *)
(* indexed byte, a reference into the buffer), named by the field.         *)
Decode(field) == Chk(field, -1)
S(i) == Chk("signer", i)
W(i) == Chk("writable", i)

(* The arguments of an instruction or of a handler call; a field that is   *)
(* not among them is None.                                                 *)
NoArgs ==
    [lamports |-> None, space |-> None, owner |-> None, amount |-> None,
     decimals |-> None, authority |-> None, authority_type |-> None,
     new_authority |-> None, mint_authority |-> None,
     freeze_authority |-> None, seed |-> None]

(* A return of Err(err) before any invocation; checks ends with the check  *)
(* that failed.                                                            *)
Fail(accts, err, checks) ==
    [result |-> err, handler |-> "none", handed |-> <<>>, passed |-> NoArgs,
     cpi |-> <<>>, checks |-> checks,
     accounts |-> accts]

(* A return of Ok(()) with no invocation.                                  *)
Done(accts, checks) ==
    [result |-> Ok, handler |-> "none", handed |-> <<>>, passed |-> NoArgs,
     cpi |-> <<>>, checks |-> checks,
     accounts |-> accts]

(* The invocation primitive (invoke / invoke_signed of the instruction     *)
(* structs of pinocchio_system and pinocchio_token).  It is external: cpi  *)
(* is the result the invoked program reports, and on success the account   *)
(* the instruction names first has its data rewritten.  The handler's      *)
(* last expression is the call, so what the primitive returns is what the  *)
(* handler returns; the record of the call keeps the primitive's result.   *)
invoke_signed(ix, metas, args, signers, accts, cpi, checks) ==
    [result |-> cpi,
     handler |-> "none", handed |-> <<>>, passed |-> NoArgs,
     cpi |-> <<[ix |-> ix, metas |-> metas, args |-> args, signers |-> signers,
                result |-> cpi]>>,
     checks |-> checks,
     accounts |-> IF cpi = Ok
                  THEN [accts EXCEPT ![metas[1] + 1].data = @ + 1]
                  ELSE accts]

invoke(ix, metas, args, accts, cpi, checks) ==
    invoke_signed(ix, metas, args, <<>>, accts, cpi, checks)

-----------------------------------------------------------------------------
(* System handlers, system/*.rs.                                           *)

process_assign(accts, owner, signers, cpi) ==
    IF Len(accts) = 0
    THEN Fail(accts, NotEnoughAccountKeys, <<ChkCount>>)
    ELSE IF ~Acc(accts, 0).is_signer
    THEN Fail(accts, MissingRequiredSignature, <<ChkCount, S(0)>>)
    ELSE invoke_signed("Assign", <<0>>, [NoArgs EXCEPT !.owner = Some(owner)],
                       signers, accts, cpi, <<ChkCount, S(0)>>)

(* process_transfer writing to the source account before it has checked    *)
(* the destination.                                                        *)
process_system_transfer_EarlyWrite(accts, lamports, signers, cpi) ==
    IF Len(accts) < 2
    THEN Fail(accts, NotEnoughAccountKeys, <<ChkCount>>)
    ELSE IF ~Acc(accts, 0).is_signer
    THEN Fail(accts, MissingRequiredSignature, <<ChkCount, S(0)>>)
    ELSE IF ~Acc(accts, 0).is_writable
    THEN Fail(accts, InvalidAccountData, <<ChkCount, S(0), W(0)>>)
    ELSE IF ~Acc(accts, 1).is_writable
    THEN Fail([accts EXCEPT ![1].data = @ + 1], InvalidAccountData,
              <<ChkCount, S(0), W(0), W(1)>>)
    ELSE invoke_signed("system::Transfer", <<0, 1>>,
                       [NoArgs EXCEPT !.lamports = Some(lamports)],
                       signers, accts, cpi, <<ChkCount, S(0), W(0), W(1)>>)

(* process_transfer without the check of the destination's writable flag.  *)
process_system_transfer_NoDestCheck(accts, lamports, signers, cpi) ==
    IF Len(accts) < 2
    THEN Fail(accts, NotEnoughAccountKeys, <<ChkCount>>)
    ELSE IF ~Acc(accts, 0).is_signer
    THEN Fail(accts, MissingRequiredSignature, <<ChkCount, S(0)>>)
    ELSE IF ~Acc(accts, 0).is_writable
    THEN Fail(accts, InvalidAccountData, <<ChkCount, S(0), W(0)>>)
    ELSE invoke_signed("system::Transfer", <<0, 1>>,
                       [NoArgs EXCEPT !.lamports = Some(lamports)],
                       signers, accts, cpi, <<ChkCount, S(0), W(0)>>)

process_system_transfer(accts, lamports, signers, cpi) ==
    IF Len(accts) < 2
    THEN Fail(accts, NotEnoughAccountKeys, <<ChkCount>>)
    ELSE IF ~Acc(accts, 0).is_signer
    THEN Fail(accts, MissingRequiredSignature, <<ChkCount, S(0)>>)
    ELSE IF ~Acc(accts, 0).is_writable
    THEN Fail(accts, InvalidAccountData, <<ChkCount, S(0), W(0)>>)
    ELSE IF ~Acc(accts, 1).is_writable
    THEN Fail(accts, InvalidAccountData, <<ChkCount, S(0), W(0), W(1)>>)
    ELSE invoke_signed("system::Transfer", <<0, 1>>,
                       [NoArgs EXCEPT !.lamports = Some(lamports)],
                       signers, accts, cpi, <<ChkCount, S(0), W(0), W(1)>>)

(* !funding.is_signer() || !new.is_signer(): the second flag is read only  *)
(* when the first is present.                                              *)
process_create_account(accts, lamports, space, owner, signers, cpi) ==
    IF Len(accts) < 2
    THEN Fail(accts, NotEnoughAccountKeys, <<ChkCount>>)
    ELSE IF ~Acc(accts, 0).is_signer
    THEN Fail(accts, MissingRequiredSignature, <<ChkCount, S(0)>>)
    ELSE IF ~Acc(accts, 1).is_signer
    THEN Fail(accts, MissingRequiredSignature, <<ChkCount, S(0), S(1)>>)
    ELSE invoke_signed("CreateAccount", <<0, 1>>,
                       [NoArgs EXCEPT !.lamports = Some(lamports),
                                      !.space = Some(space),
                                      !.owner = Some(owner)],
                       signers, accts, cpi, <<ChkCount, S(0), S(1)>>)

(* process_allocate also demanding a writable account.                     *)
process_allocate_ChecksWritable(accts, space, signers, cpi) ==
    IF Len(accts) = 0
    THEN Fail(accts, NotEnoughAccountKeys, <<ChkCount>>)
    ELSE IF ~Acc(accts, 0).is_signer
    THEN Fail(accts, MissingRequiredSignature, <<ChkCount, S(0)>>)
    ELSE IF ~Acc(accts, 0).is_writable
    THEN Fail(accts, InvalidAccountData, <<ChkCount, S(0), W(0)>>)
    ELSE invoke_signed("Allocate", <<0>>, [NoArgs EXCEPT !.space = Some(space)],
                       signers, accts, cpi, <<ChkCount, S(0), W(0)>>)

process_allocate(accts, space, signers, cpi) ==
    IF Len(accts) = 0
    THEN Fail(accts, NotEnoughAccountKeys, <<ChkCount>>)
    ELSE IF ~Acc(accts, 0).is_signer
    THEN Fail(accts, MissingRequiredSignature, <<ChkCount, S(0)>>)
    ELSE invoke_signed("Allocate", <<0>>, [NoArgs EXCEPT !.space = Some(space)],
                       signers, accts, cpi, <<ChkCount, S(0)>>)

process_allocate_with_seed(accts, seed, space, owner, signers, cpi) ==
    IF Len(accts) < 2
    THEN Fail(accts, NotEnoughAccountKeys, <<ChkCount>>)
    ELSE IF ~Acc(accts, 1).is_signer
    THEN Fail(accts, MissingRequiredSignature, <<ChkCount, S(1)>>)
    ELSE invoke_signed("AllocateWithSeed", <<0, 1>>,
                       [NoArgs EXCEPT !.seed = Some(seed), !.space = Some(space),
                                      !.owner = Some(owner)],
                       signers, accts, cpi, <<ChkCount, S(1)>>)

process_assign_with_seed(accts, seed, owner, signers, cpi) ==
    IF Len(accts) < 2
    THEN Fail(accts, NotEnoughAccountKeys, <<ChkCount>>)
    ELSE IF ~Acc(accts, 1).is_signer
    THEN Fail(accts, MissingRequiredSignature, <<ChkCount, S(1)>>)
    ELSE invoke_signed("AssignWithSeed", <<0, 1>>,
                       [NoArgs EXCEPT !.seed = Some(seed), !.owner = Some(owner)],
                       signers, accts, cpi, <<ChkCount, S(1)>>)

process_create_account_with_seed(accts, seed, lamports, space, owner, signers, cpi) ==
    IF Len(accts) < 3
    THEN Fail(accts, NotEnoughAccountKeys, <<ChkCount>>)
    ELSE IF ~Acc(accts, 0).is_signer
    THEN Fail(accts, MissingRequiredSignature, <<ChkCount, S(0)>>)
    ELSE invoke_signed("CreateAccountWithSeed", <<0, 1, 2>>,
                       [NoArgs EXCEPT !.seed = Some(seed),
                                      !.lamports = Some(lamports),
                                      !.space = Some(space),
                                      !.owner = Some(owner)],
                       signers, accts, cpi, <<ChkCount, S(0)>>)

process_transfer_with_seed(accts, lamports, seed, owner, signers, cpi) ==
    IF Len(accts) < 3
    THEN Fail(accts, NotEnoughAccountKeys, <<ChkCount>>)
    ELSE IF ~Acc(accts, 0).is_writable
    THEN Fail(accts, InvalidAccountData, <<ChkCount, W(0)>>)
    ELSE IF ~Acc(accts, 1).is_signer
    THEN Fail(accts, MissingRequiredSignature, <<ChkCount, W(0), S(1)>>)
    ELSE IF ~Acc(accts, 2).is_writable
    THEN Fail(accts, InvalidAccountData, <<ChkCount, W(0), S(1), W(2)>>)
    ELSE invoke_signed("TransferWithSeed", <<0, 1, 2>>,
                       [NoArgs EXCEPT !.lamports = Some(lamports),
                                      !.seed = Some(seed),
                                      !.owner = Some(owner)],
                       signers, accts, cpi, <<ChkCount, W(0), S(1), W(2)>>)

(* process_withdraw_nonce_account without the check of the recipient.      *)
process_withdraw_nonce_account_NoRecipientCheck(accts, lamports, signers, cpi) ==
    IF Len(accts) < 5
    THEN Fail(accts, NotEnoughAccountKeys, <<ChkCount>>)
    ELSE IF ~Acc(accts, 0).is_writable
    THEN Fail(accts, InvalidAccountData, <<ChkCount, W(0)>>)
    ELSE IF ~Acc(accts, 4).is_signer
    THEN Fail(accts, MissingRequiredSignature, <<ChkCount, W(0), S(4)>>)
    ELSE invoke_signed("WithdrawNonceAccount", <<0, 1, 2, 3, 4>>,
                       [NoArgs EXCEPT !.lamports = Some(lamports)],
                       signers, accts, cpi, <<ChkCount, W(0), S(4)>>)

(* process_withdraw_nonce_account asking for the authority's signature     *)
(* before it looks at the writable flags.                                  *)
process_withdraw_nonce_account_SignerFirst(accts, lamports, signers, cpi) ==
    IF Len(accts) < 5
    THEN Fail(accts, NotEnoughAccountKeys, <<ChkCount>>)
    ELSE IF ~Acc(accts, 4).is_signer
    THEN Fail(accts, MissingRequiredSignature, <<ChkCount, S(4)>>)
    ELSE IF ~Acc(accts, 0).is_writable
    THEN Fail(accts, InvalidAccountData, <<ChkCount, S(4), W(0)>>)
    ELSE IF ~Acc(accts, 1).is_writable
    THEN Fail(accts, InvalidAccountData, <<ChkCount, S(4), W(0), W(1)>>)
    ELSE invoke_signed("WithdrawNonceAccount", <<0, 1, 2, 3, 4>>,
                       [NoArgs EXCEPT !.lamports = Some(lamports)],
                       signers, accts, cpi, <<ChkCount, S(4), W(0), W(1)>>)

(* !nonce.is_writable() || !recipient.is_writable(): short-circuit.        *)
process_withdraw_nonce_account(accts, lamports, signers, cpi) ==
    IF Len(accts) < 5
    THEN Fail(accts, NotEnoughAccountKeys, <<ChkCount>>)
    ELSE IF ~Acc(accts, 0).is_writable
    THEN Fail(accts, InvalidAccountData, <<ChkCount, W(0)>>)
    ELSE IF ~Acc(accts, 1).is_writable
    THEN Fail(accts, InvalidAccountData, <<ChkCount, W(0), W(1)>>)
    ELSE IF ~Acc(accts, 4).is_signer
    THEN Fail(accts, MissingRequiredSignature, <<ChkCount, W(0), W(1), S(4)>>)
    ELSE invoke_signed("WithdrawNonceAccount", <<0, 1, 2, 3, 4>>,
                       [NoArgs EXCEPT !.lamports = Some(lamports)],
                       signers, accts, cpi, <<ChkCount, W(0), W(1), S(4)>>)

process_initialize_nonce_account(accts, authority, cpi) ==
    IF Len(accts) < 3
    THEN Fail(accts, NotEnoughAccountKeys, <<ChkCount>>)
    ELSE IF ~Acc(accts, 0).is_writable
    THEN Fail(accts, InvalidAccountData, <<ChkCount, W(0)>>)
    ELSE invoke("InitializeNonceAccount", <<0, 1, 2>>,
                [NoArgs EXCEPT !.authority = Some(authority)],
                accts, cpi, <<ChkCount, W(0)>>)

process_authorize_nonce_account(accts, new_authority, signers, cpi) ==
    IF Len(accts) < 2
    THEN Fail(accts, NotEnoughAccountKeys, <<ChkCount>>)
    ELSE IF ~Acc(accts, 0).is_writable
    THEN Fail(accts, InvalidAccountData, <<ChkCount, W(0)>>)
    ELSE IF ~Acc(accts, 1).is_signer
    THEN Fail(accts, MissingRequiredSignature, <<ChkCount, W(0), S(1)>>)
    ELSE invoke_signed("AuthorizeNonceAccount", <<0, 1>>,
                       [NoArgs EXCEPT !.new_authority = Some(new_authority)],
                       signers, accts, cpi, <<ChkCount, W(0), S(1)>>)

process_update_nonce_account(accts, cpi) ==
    IF Len(accts) = 0
    THEN Fail(accts, NotEnoughAccountKeys, <<ChkCount>>)
    ELSE IF ~Acc(accts, 0).is_writable
    THEN Fail(accts, InvalidAccountData, <<ChkCount, W(0)>>)
    ELSE invoke("UpgradeNonceAccount", <<0>>, NoArgs, accts, cpi,
                <<ChkCount, W(0)>>)

(* system/advance_nonce_account.rs is not among the sources; modelled on   *)
(* the sibling nonce handlers: [WRITE] nonce, [] recent blockhashes,       *)
(* [SIGNER] authority.                                                     *)
process_advance_nonce_account(accts, signers, cpi) ==
    IF Len(accts) < 3
    THEN Fail(accts, NotEnoughAccountKeys, <<ChkCount>>)
    ELSE IF ~Acc(accts, 0).is_writable
    THEN Fail(accts, InvalidAccountData, <<ChkCount, W(0)>>)
    ELSE IF ~Acc(accts, 2).is_signer
    THEN Fail(accts, MissingRequiredSignature, <<ChkCount, W(0), S(2)>>)
    ELSE invoke_signed("AdvanceNonceAccount", <<0, 1, 2>>, NoArgs,
                       signers, accts, cpi, <<ChkCount, W(0), S(2)>>)

-----------------------------------------------------------------------------
(* Token handlers, token/*.rs.                                             *)

process_approve(accts, amount, signers, cpi) ==
    IF Len(accts) < 3
    THEN Fail(accts, NotEnoughAccountKeys, <<ChkCount>>)
    ELSE IF ~Acc(accts, 0).is_writable
    THEN Fail(accts, InvalidAccountData, <<ChkCount, W(0)>>)
    ELSE IF ~Acc(accts, 2).is_signer
    THEN Fail(accts, MissingRequiredSignature, <<ChkCount, W(0), S(2)>>)
    ELSE invoke_signed("Approve", <<0, 1, 2>>, [NoArgs EXCEPT !.amount = Some(amount)],
                       signers, accts, cpi, <<ChkCount, W(0), S(2)>>)

process_approve_checked(accts, amount, decimals, signers, cpi) ==
    IF Len(accts) < 4
    THEN Fail(accts, NotEnoughAccountKeys, <<ChkCount>>)
    ELSE IF ~Acc(accts, 0).is_writable
    THEN Fail(accts, InvalidAccountData, <<ChkCount, W(0)>>)
    ELSE IF ~Acc(accts, 3).is_signer
    THEN Fail(accts, MissingRequiredSignature, <<ChkCount, W(0), S(3)>>)
    ELSE invoke_signed("ApproveChecked", <<0, 1, 2, 3>>, [NoArgs EXCEPT !.amount = Some(amount), !.decimals = Some(decimals)],
                       signers, accts, cpi, <<ChkCount, W(0), S(3)>>)

(* process_burn without the check of the mint's writable flag.             *)
process_burn_NoMintCheck(accts, amount, signers, cpi) ==
    IF Len(accts) < 3
    THEN Fail(accts, NotEnoughAccountKeys, <<ChkCount>>)
    ELSE IF ~Acc(accts, 0).is_writable
    THEN Fail(accts, InvalidAccountData, <<ChkCount, W(0)>>)
    ELSE IF ~Acc(accts, 2).is_signer
    THEN Fail(accts, MissingRequiredSignature, <<ChkCount, W(0), S(2)>>)
    ELSE invoke_signed("Burn", <<0, 1, 2>>, [NoArgs EXCEPT !.amount = Some(amount)],
                       signers, accts, cpi, <<ChkCount, W(0), S(2)>>)

process_burn(accts, amount, signers, cpi) ==
    IF Len(accts) < 3
    THEN Fail(accts, NotEnoughAccountKeys, <<ChkCount>>)
    ELSE IF ~Acc(accts, 0).is_writable
    THEN Fail(accts, InvalidAccountData, <<ChkCount, W(0)>>)
    ELSE IF ~Acc(accts, 1).is_writable
    THEN Fail(accts, InvalidAccountData, <<ChkCount, W(0), W(1)>>)
    ELSE IF ~Acc(accts, 2).is_signer
    THEN Fail(accts, MissingRequiredSignature, <<ChkCount, W(0), W(1), S(2)>>)
    ELSE invoke_signed("Burn", <<0, 1, 2>>, [NoArgs EXCEPT !.amount = Some(amount)],
                       signers, accts, cpi, <<ChkCount, W(0), W(1), S(2)>>)

process_burn_checked(accts, amount, decimals, signers, cpi) ==
    IF Len(accts) < 3
    THEN Fail(accts, NotEnoughAccountKeys, <<ChkCount>>)
    ELSE IF ~Acc(accts, 0).is_writable
    THEN Fail(accts, InvalidAccountData, <<ChkCount, W(0)>>)
    ELSE IF ~Acc(accts, 1).is_writable
    THEN Fail(accts, InvalidAccountData, <<ChkCount, W(0), W(1)>>)
    ELSE IF ~Acc(accts, 2).is_signer
    THEN Fail(accts, MissingRequiredSignature, <<ChkCount, W(0), W(1), S(2)>>)
    ELSE invoke_signed("BurnChecked", <<0, 1, 2>>, [NoArgs EXCEPT !.amount = Some(amount), !.decimals = Some(decimals)],
                       signers, accts, cpi, <<ChkCount, W(0), W(1), S(2)>>)

(* process_close_account returning Ok(()) where the authority has not      *)
(* signed, with nothing invoked.                                           *)
process_close_account_Lenient(accts, signers, cpi) ==
    IF Len(accts) < 3
    THEN Fail(accts, NotEnoughAccountKeys, <<ChkCount>>)
    ELSE IF ~Acc(accts, 0).is_writable
    THEN Fail(accts, InvalidAccountData, <<ChkCount, W(0)>>)
    ELSE IF ~Acc(accts, 1).is_writable
    THEN Fail(accts, InvalidAccountData, <<ChkCount, W(0), W(1)>>)
    ELSE IF ~Acc(accts, 2).is_signer
    THEN Done(accts, <<ChkCount, W(0), W(1), S(2)>>)
    ELSE invoke_signed("CloseAccount", <<0, 1, 2>>, NoArgs,
                       signers, accts, cpi, <<ChkCount, W(0), W(1), S(2)>>)

process_close_account(accts, signers, cpi) ==
    IF Len(accts) < 3
    THEN Fail(accts, NotEnoughAccountKeys, <<ChkCount>>)
    ELSE IF ~Acc(accts, 0).is_writable
    THEN Fail(accts, InvalidAccountData, <<ChkCount, W(0)>>)
    ELSE IF ~Acc(accts, 1).is_writable
    THEN Fail(accts, InvalidAccountData, <<ChkCount, W(0), W(1)>>)
    ELSE IF ~Acc(accts, 2).is_signer
    THEN Fail(accts, MissingRequiredSignature, <<ChkCount, W(0), W(1), S(2)>>)
    ELSE invoke_signed("CloseAccount", <<0, 1, 2>>, NoArgs,
                       signers, accts, cpi, <<ChkCount, W(0), W(1), S(2)>>)

process_freeze_account(accts, signers, cpi) ==
    IF Len(accts) < 3
    THEN Fail(accts, NotEnoughAccountKeys, <<ChkCount>>)
    ELSE IF ~Acc(accts, 0).is_writable
    THEN Fail(accts, InvalidAccountData, <<ChkCount, W(0)>>)
    ELSE IF ~Acc(accts, 2).is_signer
    THEN Fail(accts, MissingRequiredSignature, <<ChkCount, W(0), S(2)>>)
    ELSE invoke_signed("FreezeAccount", <<0, 1, 2>>, NoArgs,
                       signers, accts, cpi, <<ChkCount, W(0), S(2)>>)

process_thaw_account(accts, signers, cpi) ==
    IF Len(accts) < 3
    THEN Fail(accts, NotEnoughAccountKeys, <<ChkCount>>)
    ELSE IF ~Acc(accts, 0).is_writable
    THEN Fail(accts, InvalidAccountData, <<ChkCount, W(0)>>)
    ELSE IF ~Acc(accts, 2).is_signer
    THEN Fail(accts, MissingRequiredSignature, <<ChkCount, W(0), S(2)>>)
    ELSE invoke_signed("ThawAccount", <<0, 1, 2>>, NoArgs,
                       signers, accts, cpi, <<ChkCount, W(0), S(2)>>)

process_mint_to_checked(accts, amount, decimals, signers, cpi) ==
    IF Len(accts) < 3
    THEN Fail(accts, NotEnoughAccountKeys, <<ChkCount>>)
    ELSE IF ~Acc(accts, 0).is_writable
    THEN Fail(accts, InvalidAccountData, <<ChkCount, W(0)>>)
    ELSE IF ~Acc(accts, 1).is_writable
    THEN Fail(accts, InvalidAccountData, <<ChkCount, W(0), W(1)>>)
    ELSE IF ~Acc(accts, 2).is_signer
    THEN Fail(accts, MissingRequiredSignature, <<ChkCount, W(0), W(1), S(2)>>)
    ELSE invoke_signed("MintToChecked", <<0, 1, 2>>, [NoArgs EXCEPT !.amount = Some(amount), !.decimals = Some(decimals)],
                       signers, accts, cpi, <<ChkCount, W(0), W(1), S(2)>>)

(* process_revoke turning a failure of the primitive into success.         *)
process_revoke_SwallowsFailure(accts, signers, cpi) ==
    IF Len(accts) < 2
    THEN Fail(accts, NotEnoughAccountKeys, <<ChkCount>>)
    ELSE IF ~Acc(accts, 0).is_writable
    THEN Fail(accts, InvalidAccountData, <<ChkCount, W(0)>>)
    ELSE IF ~Acc(accts, 1).is_signer
    THEN Fail(accts, MissingRequiredSignature, <<ChkCount, W(0), S(1)>>)
    ELSE [invoke_signed("Revoke", <<0, 1>>, NoArgs,
                        signers, accts, cpi, <<ChkCount, W(0), S(1)>>)
            EXCEPT !.result = Ok]

process_revoke(accts, signers, cpi) ==
    IF Len(accts) < 2
    THEN Fail(accts, NotEnoughAccountKeys, <<ChkCount>>)
    ELSE IF ~Acc(accts, 0).is_writable
    THEN Fail(accts, InvalidAccountData, <<ChkCount, W(0)>>)
    ELSE IF ~Acc(accts, 1).is_signer
    THEN Fail(accts, MissingRequiredSignature, <<ChkCount, W(0), S(1)>>)
    ELSE invoke_signed("Revoke", <<0, 1>>, NoArgs,
                       signers, accts, cpi, <<ChkCount, W(0), S(1)>>)

(* process_set_authority checking the authority's signature before the     *)
(* account's writable flag.                                                *)
process_set_authority_SignerFirst(accts, authority_type, new_authority, signers, cpi) ==
    IF Len(accts) < 2
    THEN Fail(accts, NotEnoughAccountKeys, <<ChkCount>>)
    ELSE IF ~Acc(accts, 1).is_signer
    THEN Fail(accts, MissingRequiredSignature, <<ChkCount, S(1)>>)
    ELSE IF ~Acc(accts, 0).is_writable
    THEN Fail(accts, InvalidAccountData, <<ChkCount, S(1), W(0)>>)
    ELSE invoke_signed("SetAuthority", <<0, 1>>,
                       [NoArgs EXCEPT !.authority_type = Some(authority_type),
                                      !.new_authority = new_authority],
                       signers, accts, cpi, <<ChkCount, S(1), W(0)>>)

process_set_authority(accts, authority_type, new_authority, signers, cpi) ==
    IF Len(accts) < 2
    THEN Fail(accts, NotEnoughAccountKeys, <<ChkCount>>)
    ELSE IF ~Acc(accts, 0).is_writable
    THEN Fail(accts, InvalidAccountData, <<ChkCount, W(0)>>)
    ELSE IF ~Acc(accts, 1).is_signer
    THEN Fail(accts, MissingRequiredSignature, <<ChkCount, W(0), S(1)>>)
    ELSE invoke_signed("SetAuthority", <<0, 1>>, [NoArgs EXCEPT !.authority_type = Some(authority_type),
                                      !.new_authority = new_authority],
                       signers, accts, cpi, <<ChkCount, W(0), S(1)>>)

(* process_sync_native refusing an account it has synchronized before.     *)
process_sync_native_OnlyOnce(accts, cpi) ==
    IF Len(accts) < 1
    THEN Fail(accts, NotEnoughAccountKeys, <<ChkCount>>)
    ELSE IF ~Acc(accts, 0).is_writable
    THEN Fail(accts, InvalidAccountData, <<ChkCount, W(0)>>)
    ELSE IF Acc(accts, 0).data # 0
    THEN Fail(accts, InvalidAccountData, <<ChkCount, W(0), W(0)>>)
    ELSE invoke("SyncNative", <<0>>, NoArgs,
                accts, cpi, <<ChkCount, W(0)>>)

process_sync_native(accts, cpi) ==
    IF Len(accts) < 1
    THEN Fail(accts, NotEnoughAccountKeys, <<ChkCount>>)
    ELSE IF ~Acc(accts, 0).is_writable
    THEN Fail(accts, InvalidAccountData, <<ChkCount, W(0)>>)
    ELSE invoke("SyncNative", <<0>>, NoArgs,
                accts, cpi, <<ChkCount, W(0)>>)

(* process_transfer_checked also demanding a writable mint.                *)
process_transfer_checked_MintWritable(accts, amount, decimals, signers, cpi) ==
    IF Len(accts) < 4
    THEN Fail(accts, NotEnoughAccountKeys, <<ChkCount>>)
    ELSE IF ~Acc(accts, 0).is_writable
    THEN Fail(accts, InvalidAccountData, <<ChkCount, W(0)>>)
    ELSE IF ~Acc(accts, 1).is_writable
    THEN Fail(accts, InvalidAccountData, <<ChkCount, W(0), W(1)>>)
    ELSE IF ~Acc(accts, 2).is_writable
    THEN Fail(accts, InvalidAccountData, <<ChkCount, W(0), W(1), W(2)>>)
    ELSE IF ~Acc(accts, 3).is_signer
    THEN Fail(accts, MissingRequiredSignature,
              <<ChkCount, W(0), W(1), W(2), S(3)>>)
    ELSE invoke_signed("TransferChecked", <<0, 1, 2, 3>>,
                       [NoArgs EXCEPT !.amount = Some(amount),
                                      !.decimals = Some(decimals)],
                       signers, accts, cpi, <<ChkCount, W(0), W(1), W(2), S(3)>>)

process_transfer_checked(accts, amount, decimals, signers, cpi) ==
    IF Len(accts) < 4
    THEN Fail(accts, NotEnoughAccountKeys, <<ChkCount>>)
    ELSE IF ~Acc(accts, 0).is_writable
    THEN Fail(accts, InvalidAccountData, <<ChkCount, W(0)>>)
    ELSE IF ~Acc(accts, 2).is_writable
    THEN Fail(accts, InvalidAccountData, <<ChkCount, W(0), W(2)>>)
    ELSE IF ~Acc(accts, 3).is_signer
    THEN Fail(accts, MissingRequiredSignature, <<ChkCount, W(0), W(2), S(3)>>)
    ELSE invoke_signed("TransferChecked", <<0, 1, 2, 3>>, [NoArgs EXCEPT !.amount = Some(amount), !.decimals = Some(decimals)],
                       signers, accts, cpi, <<ChkCount, W(0), W(2), S(3)>>)

(* The next four handlers (token/transfer_tokens.rs, token/mint_to.rs,     *)
(* token/initialize_account.rs, token/initialize_mint.rs) are not among    *)
(* the sources.  They follow the account-capability table of the design    *)
(* document and the shape every handler present has: count check, flag     *)
(* checks in index order, one invocation.                                  *)

process_token_transfer(accts, amount, signers, cpi) ==
    IF Len(accts) < 3
    THEN Fail(accts, NotEnoughAccountKeys, <<ChkCount>>)
    ELSE IF ~Acc(accts, 0).is_writable
    THEN Fail(accts, InvalidAccountData, <<ChkCount, W(0)>>)
    ELSE IF ~Acc(accts, 2).is_signer
    THEN Fail(accts, MissingRequiredSignature, <<ChkCount, W(0), S(2)>>)
    ELSE invoke_signed("token::Transfer", <<0, 1, 2>>, [NoArgs EXCEPT !.amount = Some(amount)],
                       signers, accts, cpi, <<ChkCount, W(0), S(2)>>)

process_mint_to(accts, amount, signers, cpi) ==
    IF Len(accts) < 3
    THEN Fail(accts, NotEnoughAccountKeys, <<ChkCount>>)
    ELSE IF ~Acc(accts, 0).is_writable
    THEN Fail(accts, InvalidAccountData, <<ChkCount, W(0)>>)
    ELSE IF ~Acc(accts, 1).is_writable
    THEN Fail(accts, InvalidAccountData, <<ChkCount, W(0), W(1)>>)
    ELSE IF ~Acc(accts, 2).is_signer
    THEN Fail(accts, MissingRequiredSignature, <<ChkCount, W(0), W(1), S(2)>>)
    ELSE invoke_signed("MintTo", <<0, 1, 2>>, [NoArgs EXCEPT !.amount = Some(amount)],
                       signers, accts, cpi, <<ChkCount, W(0), W(1), S(2)>>)

process_initialize_account(accts, cpi) ==
    IF Len(accts) < 4
    THEN Fail(accts, NotEnoughAccountKeys, <<ChkCount>>)
    ELSE IF ~Acc(accts, 0).is_writable
    THEN Fail(accts, InvalidAccountData, <<ChkCount, W(0)>>)
    ELSE invoke("InitializeAccount", <<0, 1, 2, 3>>, NoArgs,
                accts, cpi, <<ChkCount, W(0)>>)

process_initialize_mint(accts, decimals, mint_authority, freeze_authority, cpi) ==
    IF Len(accts) < 2
    THEN Fail(accts, NotEnoughAccountKeys, <<ChkCount>>)
    ELSE IF ~Acc(accts, 0).is_writable
    THEN Fail(accts, InvalidAccountData, <<ChkCount, W(0)>>)
    ELSE invoke("InitializeMint", <<0, 1>>, [NoArgs EXCEPT !.decimals = Some(decimals),
                        !.mint_authority = Some(mint_authority),
                        !.freeze_authority = freeze_authority],
                accts, cpi, <<ChkCount, W(0)>>)

-----------------------------------------------------------------------------
(* The dispatcher, lib.rs process_instruction: one operator per match arm. *)

(* The selector table with AccountOwner and CloseAccount exchanged.         *)
AuthorityType_Swapped ==
    (0 :> "MintTokens") @@ (1 :> "FreezeAccount") @@
    (2 :> "CloseAccount") @@ (3 :> "AccountOwner")

(* pinocchio_token::instructions::AuthorityType as the SET_AUTHORITY arm   *)
(* selects it from data[0].                                                *)
AuthorityType ==
    (0 :> "MintTokens") @@ (1 :> "FreezeAccount") @@
    (2 :> "AccountOwner") @@ (3 :> "CloseAccount")

(* The dispatcher calling a handler: the handler's outcome is returned as  *)
(* it is; prefix are the dispatcher's own checks that came before, and     *)
(* handed are the addresses of the accounts the handler was given.         *)
Via(name, prefix, o) ==
    [o EXCEPT !.handler = name, !.checks = prefix \o @,
              !.handed = [i \in DOMAIN o.accounts |-> o.accounts[i].address]]

arm_ASSIGN(data, accts, cpi) ==
    IF Len(data) < 32
    THEN Fail(accts, InvalidInstructionData, <<ChkEmpty, ChkOpcode, ChkLength>>)
    ELSE Via("process_assign",
             <<ChkEmpty, ChkOpcode, ChkLength,
               Decode("owner")>>,
             process_assign(accts, Slice(data, 0, 32), <<>>, cpi))

(* The TRANSFER arm asking for one byte more than the amount takes.         *)
arm_TRANSFER_OffByOne(data, accts, cpi) ==
    IF Len(data) < 9
    THEN Fail(accts, InvalidInstructionData, <<ChkEmpty, ChkOpcode, ChkLength>>)
    ELSE Via("process_system_transfer",
             <<ChkEmpty, ChkOpcode, ChkLength,
               Decode("lamports")>>,
             process_system_transfer(accts, from_le_bytes(Slice(data, 0, 8)), <<>>, cpi))

arm_TRANSFER(data, accts, cpi) ==
    IF Len(data) < 8
    THEN Fail(accts, InvalidInstructionData, <<ChkEmpty, ChkOpcode, ChkLength>>)
    ELSE Via("process_system_transfer",
             <<ChkEmpty, ChkOpcode, ChkLength,
               Decode("lamports")>>,
             process_system_transfer(accts, from_le_bytes(Slice(data, 0, 8)), <<>>, cpi))

(* The CREATE_ACCOUNT arm accepting 47 payload bytes (lamports and space    *)
(* counted, the owner one byte short).                                     *)
arm_CREATE_ACCOUNT_Short(data, accts, cpi) ==
    IF Len(data) < 47
    THEN Fail(accts, InvalidInstructionData, <<ChkEmpty, ChkOpcode, ChkLength>>)
    ELSE Via("process_create_account",
             <<ChkEmpty, ChkOpcode, ChkLength,
               Decode("lamports"), Decode("space"), Decode("owner")>>,
             process_create_account(accts, from_le_bytes(Slice(data, 0, 8)),
                 from_le_bytes(Slice(data, 8, 16)), SliceFrom(data, 16), <<>>, cpi))

arm_CREATE_ACCOUNT(data, accts, cpi) ==
    IF Len(data) < 48
    THEN Fail(accts, InvalidInstructionData, <<ChkEmpty, ChkOpcode, ChkLength>>)
    ELSE Via("process_create_account",
             <<ChkEmpty, ChkOpcode, ChkLength,
               Decode("lamports"), Decode("space"), Decode("owner")>>,
             process_create_account(accts, from_le_bytes(Slice(data, 0, 8)),
                 from_le_bytes(Slice(data, 8, 16)), Slice(data, 16, 48), <<>>, cpi))

arm_ALLOCATE(data, accts, cpi) ==
    IF Len(data) < 8
    THEN Fail(accts, InvalidInstructionData, <<ChkEmpty, ChkOpcode, ChkLength>>)
    ELSE Via("process_allocate",
             <<ChkEmpty, ChkOpcode, ChkLength,
               Decode("space")>>,
             process_allocate(accts, from_le_bytes(Slice(data, 0, 8)), <<>>, cpi))

arm_ADVANCE_NONCE(data, accts, cpi) ==
    Via("process_advance_nonce_account", <<ChkEmpty, ChkOpcode>>,
             process_advance_nonce_account(accts, <<>>, cpi))

arm_WITHDRAW_NONCE(data, accts, cpi) ==
    IF Len(data) < 8
    THEN Fail(accts, InvalidInstructionData, <<ChkEmpty, ChkOpcode, ChkLength>>)
    ELSE Via("process_withdraw_nonce_account",
             <<ChkEmpty, ChkOpcode, ChkLength,
               Decode("lamports")>>,
             process_withdraw_nonce_account(accts, from_le_bytes(Slice(data, 0, 8)), <<>>, cpi))

arm_INIT_NONCE(data, accts, cpi) ==
    IF Len(data) < 32
    THEN Fail(accts, InvalidInstructionData, <<ChkEmpty, ChkOpcode, ChkLength>>)
    ELSE Via("process_initialize_nonce_account",
             <<ChkEmpty, ChkOpcode, ChkLength,
               Decode("authority")>>,
             process_initialize_nonce_account(accts, Slice(data, 0, 32), cpi))

arm_AUTHORIZE_NONCE(data, accts, cpi) ==
    IF Len(data) < 32
    THEN Fail(accts, InvalidInstructionData, <<ChkEmpty, ChkOpcode, ChkLength>>)
    ELSE Via("process_authorize_nonce_account",
             <<ChkEmpty, ChkOpcode, ChkLength,
               Decode("new_authority")>>,
             process_authorize_nonce_account(accts, Slice(data, 0, 32), <<>>, cpi))

(* The UPDATE_NONCE arm demanding a payload it never reads.                 *)
arm_UPDATE_NONCE_NeedsPayload(data, accts, cpi) ==
    IF Len(data) < 1
    THEN Fail(accts, InvalidInstructionData, <<ChkEmpty, ChkOpcode, ChkLength>>)
    ELSE Via("process_update_nonce_account", <<ChkEmpty, ChkOpcode, ChkLength>>,
             process_update_nonce_account(accts, cpi))

arm_UPDATE_NONCE(data, accts, cpi) ==
    Via("process_update_nonce_account", <<ChkEmpty, ChkOpcode>>,
             process_update_nonce_account(accts, cpi))

(* The seed arms parsing a seed length and calling the with-seed handler.   *)
arm_WITH_SEED_Parsed(data, accts, cpi) ==
    IF Len(data) < 8
    THEN Fail(accts, InvalidInstructionData, <<ChkEmpty, ChkOpcode, ChkLength>>)
    ELSE Via("process_allocate_with_seed",
             <<ChkEmpty, ChkOpcode, ChkLength,
               Decode("space")>>,
             process_allocate_with_seed(accts, "seed",
                 from_le_bytes(Slice(data, 0, 8)), [i \in 1..32 |-> i], <<>>, cpi))

(* The four seed arms: Ok(()) with nothing parsed and no handler called.    *)
arm_WITH_SEED(data, accts, cpi) ==
    Done(accts, <<ChkEmpty, ChkOpcode>>)

(* The INIT_MINT arm handing the handler the whole account list.           *)
arm_INIT_MINT_WholeList(data, accts, cpi) ==
    IF Len(data) = 0
    THEN Fail(accts, InvalidInstructionData, <<ChkEmpty, ChkOpcode, ChkLength>>)
    ELSE IF Len(accts) < 3
    THEN Fail(accts, InvalidInstructionData,
              <<ChkEmpty, ChkOpcode, ChkLength, ChkCount>>)
    ELSE LET decimals == At(data, 0)
             mint_authority == Acc(accts, 2).address
             freeze_authority == IF Len(accts) > 3
                                 THEN Some(Acc(accts, 3).address) ELSE None
             o == Via("process_initialize_mint",
                      <<ChkEmpty, ChkOpcode, ChkLength, ChkCount, Decode("decimals")>>,
                      process_initialize_mint(accts, decimals,
                                              mint_authority, freeze_authority, cpi))
         IN  [o EXCEPT !.passed = [NoArgs EXCEPT
                           !.decimals = Some(decimals),
                           !.mint_authority = Some(mint_authority),
                           !.freeze_authority = freeze_authority]]

(* data.is_empty() || accounts.len() < 3: one return for both conditions,  *)
(* the count read only when the payload is not empty.                      *)
arm_INIT_MINT(data, accts, cpi) ==
    IF Len(data) = 0
    THEN Fail(accts, InvalidInstructionData, <<ChkEmpty, ChkOpcode, ChkLength>>)
    ELSE IF Len(accts) < 3
    THEN Fail(accts, InvalidInstructionData,
              <<ChkEmpty, ChkOpcode, ChkLength, ChkCount>>)
    ELSE LET decimals == At(data, 0)
             mint_authority == Acc(accts, 2).address
             freeze_authority == IF Len(accts) > 3
                                 THEN Some(Acc(accts, 3).address) ELSE None
             o == Via("process_initialize_mint",
                      <<ChkEmpty, ChkOpcode, ChkLength, ChkCount, Decode("decimals")>>,
                      process_initialize_mint(Slice(accts, 0, 2), decimals,
                                              mint_authority, freeze_authority, cpi))
         IN  [o EXCEPT !.accounts = @ \o SliceFrom(accts, 2),
                       !.passed = [NoArgs EXCEPT
                           !.decimals = Some(decimals),
                           !.mint_authority = Some(mint_authority),
                           !.freeze_authority = freeze_authority]]

arm_INIT_ACCOUNT(data, accts, cpi) ==
    Via("process_initialize_account", <<ChkEmpty, ChkOpcode>>,
             process_initialize_account(accts, cpi))

arm_TOKEN_TRANSFER(data, accts, cpi) ==
    IF Len(data) < 8
    THEN Fail(accts, InvalidInstructionData, <<ChkEmpty, ChkOpcode, ChkLength>>)
    ELSE Via("process_token_transfer",
             <<ChkEmpty, ChkOpcode, ChkLength,
               Decode("amount")>>,
             [process_token_transfer(accts, from_le_bytes(Slice(data, 0, 8)), <<>>, cpi)
                 EXCEPT !.passed = [NoArgs EXCEPT
                     !.amount = Some(from_le_bytes(Slice(data, 0, 8)))]])

arm_APPROVE(data, accts, cpi) ==
    IF Len(data) < 8
    THEN Fail(accts, InvalidInstructionData, <<ChkEmpty, ChkOpcode, ChkLength>>)
    ELSE Via("process_approve",
             <<ChkEmpty, ChkOpcode, ChkLength,
               Decode("amount")>>,
             process_approve(accts, from_le_bytes(Slice(data, 0, 8)), <<>>, cpi))

(* The REVOKE arm forwarding to the set-authority handler.                  *)
arm_REVOKE_Misrouted(data, accts, cpi) ==
    Via("process_set_authority", <<ChkEmpty, ChkOpcode>>,
        process_set_authority(accts, "AccountOwner", None, <<>>, cpi))

arm_REVOKE(data, accts, cpi) ==
    Via("process_revoke", <<ChkEmpty, ChkOpcode>>,
             process_revoke(accts, <<>>, cpi))

(* The SET_AUTHORITY arm with a value of its own (InvalidArgument) for an  *)
(* unrecognized selector.                                                  *)
arm_SET_AUTHORITY_OwnValue(data, accts, cpi) ==
    IF Len(data) = 0
    THEN Fail(accts, InvalidInstructionData, <<ChkEmpty, ChkOpcode, ChkLength>>)
    ELSE IF At(data, 0) \notin DOMAIN AuthorityType
    THEN Fail(accts, "InvalidArgument",
              <<ChkEmpty, ChkOpcode, ChkLength, ChkField>>)
    ELSE Via("process_set_authority",
             <<ChkEmpty, ChkOpcode, ChkLength, ChkField,
               Decode("new_authority")>>,
             process_set_authority(accts, AuthorityType[At(data, 0)],
                 IF Len(data) >= 33 THEN Some(Slice(data, 1, 33)) ELSE None,
                 <<>>, cpi))

arm_SET_AUTHORITY(data, accts, cpi) ==
    IF Len(data) = 0
    THEN Fail(accts, InvalidInstructionData, <<ChkEmpty, ChkOpcode, ChkLength>>)
    ELSE IF At(data, 0) \notin DOMAIN AuthorityType
    THEN Fail(accts, InvalidInstructionData,
              <<ChkEmpty, ChkOpcode, ChkLength, ChkField>>)
    ELSE Via("process_set_authority",
             <<ChkEmpty, ChkOpcode, ChkLength, ChkField,
               Decode("new_authority")>>,
             process_set_authority(accts, AuthorityType[At(data, 0)],
                 IF Len(data) >= 33 THEN Some(Slice(data, 1, 33)) ELSE None,
                 <<>>, cpi))

arm_MINT_TO(data, accts, cpi) ==
    IF Len(data) < 8
    THEN Fail(accts, InvalidInstructionData, <<ChkEmpty, ChkOpcode, ChkLength>>)
    ELSE Via("process_mint_to",
             <<ChkEmpty, ChkOpcode, ChkLength,
               Decode("amount")>>,
             [process_mint_to(accts, from_le_bytes(Slice(data, 0, 8)), <<>>, cpi)
                 EXCEPT !.passed = [NoArgs EXCEPT
                     !.amount = Some(from_le_bytes(Slice(data, 0, 8)))]])

arm_BURN(data, accts, cpi) ==
    IF Len(data) < 8
    THEN Fail(accts, InvalidInstructionData, <<ChkEmpty, ChkOpcode, ChkLength>>)
    ELSE Via("process_burn",
             <<ChkEmpty, ChkOpcode, ChkLength,
               Decode("amount")>>,
             process_burn(accts, from_le_bytes(Slice(data, 0, 8)), <<>>, cpi))

(* The CLOSE_ACCOUNT arm refusing a payload it has no use for.             *)
arm_CLOSE_ACCOUNT_NoPayload(data, accts, cpi) ==
    IF Len(data) > 0
    THEN Fail(accts, InvalidInstructionData, <<ChkEmpty, ChkOpcode, ChkLength>>)
    ELSE Via("process_close_account", <<ChkEmpty, ChkOpcode>>,
             process_close_account(accts, <<>>, cpi))

arm_CLOSE_ACCOUNT(data, accts, cpi) ==
    Via("process_close_account", <<ChkEmpty, ChkOpcode>>,
             process_close_account(accts, <<>>, cpi))

arm_FREEZE(data, accts, cpi) ==
    Via("process_freeze_account", <<ChkEmpty, ChkOpcode>>,
             process_freeze_account(accts, <<>>, cpi))

arm_THAW(data, accts, cpi) ==
    Via("process_thaw_account", <<ChkEmpty, ChkOpcode>>,
             process_thaw_account(accts, <<>>, cpi))

arm_TRANSFER_CHECKED(data, accts, cpi) ==
    IF Len(data) < 9
    THEN Fail(accts, InvalidInstructionData, <<ChkEmpty, ChkOpcode, ChkLength>>)
    ELSE Via("process_transfer_checked",
             <<ChkEmpty, ChkOpcode, ChkLength,
               Decode("amount"), Decode("decimals")>>,
             process_transfer_checked(accts, from_le_bytes(Slice(data, 0, 8)), At(data, 8), <<>>, cpi))

arm_APPROVE_CHECKED(data, accts, cpi) ==
    IF Len(data) < 9
    THEN Fail(accts, InvalidInstructionData, <<ChkEmpty, ChkOpcode, ChkLength>>)
    ELSE Via("process_approve_checked",
             <<ChkEmpty, ChkOpcode, ChkLength,
               Decode("amount"), Decode("decimals")>>,
             process_approve_checked(accts, from_le_bytes(Slice(data, 0, 8)), At(data, 8), <<>>, cpi))

arm_MINT_TO_CHECKED(data, accts, cpi) ==
    IF Len(data) < 9
    THEN Fail(accts, InvalidInstructionData, <<ChkEmpty, ChkOpcode, ChkLength>>)
    ELSE Via("process_mint_to_checked",
             <<ChkEmpty, ChkOpcode, ChkLength,
               Decode("amount"), Decode("decimals")>>,
             process_mint_to_checked(accts, from_le_bytes(Slice(data, 0, 8)), At(data, 8), <<>>, cpi))

(* The BURN_CHECKED arm reading decimals first and the amount after it.    *)
arm_BURN_CHECKED_DecimalsFirst(data, accts, cpi) ==
    IF Len(data) < 9
    THEN Fail(accts, InvalidInstructionData, <<ChkEmpty, ChkOpcode, ChkLength>>)
    ELSE Via("process_burn_checked",
             <<ChkEmpty, ChkOpcode, ChkLength,
               Decode("amount"), Decode("decimals")>>,
             process_burn_checked(accts, from_le_bytes(Slice(data, 1, 9)), At(data, 0), <<>>, cpi))

arm_BURN_CHECKED(data, accts, cpi) ==
    IF Len(data) < 9
    THEN Fail(accts, InvalidInstructionData, <<ChkEmpty, ChkOpcode, ChkLength>>)
    ELSE Via("process_burn_checked",
             <<ChkEmpty, ChkOpcode, ChkLength,
               Decode("amount"), Decode("decimals")>>,
             process_burn_checked(accts, from_le_bytes(Slice(data, 0, 8)), At(data, 8), <<>>, cpi))

arm_SYNC_NATIVE(data, accts, cpi) ==
    Via("process_sync_native", <<ChkEmpty, ChkOpcode>>,
             process_sync_native(accts, cpi))

(* match discriminator { ... }                                             *)
dispatch(discriminator, data, accts, cpi) ==
    CASE discriminator = SYS_ASSIGN -> arm_ASSIGN(data, accts, cpi)
    [] discriminator = SYS_TRANSFER -> arm_TRANSFER(data, accts, cpi)
    [] discriminator = SYS_CREATE_ACCOUNT -> arm_CREATE_ACCOUNT(data, accts, cpi)
    [] discriminator = SYS_ALLOCATE -> arm_ALLOCATE(data, accts, cpi)
    [] discriminator = SYS_ADVANCE_NONCE -> arm_ADVANCE_NONCE(data, accts, cpi)
    [] discriminator = SYS_WITHDRAW_NONCE -> arm_WITHDRAW_NONCE(data, accts, cpi)
    [] discriminator = SYS_INIT_NONCE -> arm_INIT_NONCE(data, accts, cpi)
    [] discriminator = SYS_AUTHORIZE_NONCE -> arm_AUTHORIZE_NONCE(data, accts, cpi)
    [] discriminator = SYS_UPDATE_NONCE -> arm_UPDATE_NONCE(data, accts, cpi)
    [] discriminator \in {SYS_ALLOCATE_WITH_SEED, SYS_ASSIGN_WITH_SEED,
                           SYS_CREATE_ACCOUNT_WITH_SEED, SYS_TRANSFER_WITH_SEED} ->
        arm_WITH_SEED(data, accts, cpi)
    [] discriminator = TOKEN_INIT_MINT -> arm_INIT_MINT(data, accts, cpi)
    [] discriminator = TOKEN_INIT_ACCOUNT -> arm_INIT_ACCOUNT(data, accts, cpi)
    [] discriminator = TOKEN_TRANSFER -> arm_TOKEN_TRANSFER(data, accts, cpi)
    [] discriminator = TOKEN_APPROVE -> arm_APPROVE(data, accts, cpi)
    [] discriminator = TOKEN_REVOKE -> arm_REVOKE(data, accts, cpi)
    [] discriminator = TOKEN_SET_AUTHORITY -> arm_SET_AUTHORITY(data, accts, cpi)
    [] discriminator = TOKEN_MINT_TO -> arm_MINT_TO(data, accts, cpi)
    [] discriminator = TOKEN_BURN -> arm_BURN(data, accts, cpi)
    [] discriminator = TOKEN_CLOSE_ACCOUNT -> arm_CLOSE_ACCOUNT(data, accts, cpi)
    [] discriminator = TOKEN_FREEZE -> arm_FREEZE(data, accts, cpi)
    [] discriminator = TOKEN_THAW -> arm_THAW(data, accts, cpi)
    [] discriminator = TOKEN_TRANSFER_CHECKED -> arm_TRANSFER_CHECKED(data, accts, cpi)
    [] discriminator = TOKEN_APPROVE_CHECKED -> arm_APPROVE_CHECKED(data, accts, cpi)
    [] discriminator = TOKEN_MINT_TO_CHECKED -> arm_MINT_TO_CHECKED(data, accts, cpi)
    [] discriminator = TOKEN_BURN_CHECKED -> arm_BURN_CHECKED(data, accts, cpi)
    [] discriminator = TOKEN_SYNC_NATIVE -> arm_SYNC_NATIVE(data, accts, cpi)
    [] OTHER -> Fail(accts, InvalidInstructionData, <<ChkEmpty, ChkOpcode>>)

(* process_instruction with the empty buffer taken for a no-op.            *)
process_instruction_EmptyOk(accts, data_in, cpi) ==
    IF Len(data_in) = 0
    THEN Done(accts, <<ChkEmpty>>)
    ELSE dispatch(At(data_in, 0), SliceFrom(data_in, 1), accts, cpi)

(* process_instruction with the byte past the table taken for the last     *)
(* entry (an inclusive upper bound one too large).                         *)
process_instruction_PastTable(accts, data_in, cpi) ==
    IF Len(data_in) = 0
    THEN Fail(accts, InvalidInstructionData, <<ChkEmpty>>)
    ELSE dispatch(IF At(data_in, 0) = TOKEN_SYNC_NATIVE + 1
                  THEN TOKEN_SYNC_NATIVE ELSE At(data_in, 0),
                  SliceFrom(data_in, 1), accts, cpi)

process_instruction(accts, data_in, cpi) ==
    IF Len(data_in) = 0
    THEN Fail(accts, InvalidInstructionData, <<ChkEmpty>>)
    ELSE dispatch(At(data_in, 0), SliceFrom(data_in, 1), accts, cpi)

-----------------------------------------------------------------------------
(* The inputs the host can hand to one call.                               *)

(* An account handle as loaded by the host: its address, its two           *)
(* capability flags, its lamports and (abstracted to a version number)     *)
(* its data.                                                               *)
Account(i, signer, writable) ==
    [address |-> i, is_signer |-> signer, is_writable |-> writable,
     lamports |-> 1, data |-> 0]

AccountLists ==
    UNION {{[i \in 1..n |-> Account(i - 1, f[i][1], f[i][2])] :
               f \in [1..n -> BOOLEAN \X BOOLEAN]} : n \in 0..MaxAccounts}

(* Account lists whose accounts all carry the same flags.                  *)
UniformAccountLists ==
    {[i \in 1..n |-> Account(i - 1, sw[1], sw[2])] :
        n \in 0..MaxAccounts, sw \in BOOLEAN \X BOOLEAN}

(* First bytes: every discriminator of the table, the two ends of the gap  *)
(* between its ranges, the first value past it and the largest byte.       *)
FirstBytes == (0..12) \cup (20..35) \cup {13, 19, 36, 255}

(* The payload lengths at which some arm of the dispatcher changes its     *)
(* decision (1, 8, 9, 32, 33, 48), one less, and up to MaxTrailing more.   *)
PayloadLens ==
    {n \in UNION {(m - 1)..(m + MaxTrailing) : m \in {0, 1, 8, 9, 32, 33, 48}} :
        n >= 0}

(* Payload bytes: byte i (0-based) is fill * (i + 1) mod 256.              *)
Payload(len, fill) == [i \in 1..len |-> (fill * i) % 256]

Fills == {1, 7}

Buffers ==
    {<<>>} \cup {<<d>> \o Payload(len, fill) :
                    d \in FirstBytes, len \in PayloadLens, fill \in Fills}

(* Unsigned 64-bit amounts, as four 16-bit limbs: every combination of the *)
(* smallest limb, the largest, and one whose two bytes differ, and the     *)
(* amount of test_transfer (1_000_000).                                    *)
LimbValues == {0, 256, 65535}

Amounts == [1..4 -> LimbValues] \cup {<<16960, 15, 0, 0>>}

(* Every account list of up to MaxScenarioAccounts accounts.               *)
ScenarioAccountLists ==
    UNION {{[i \in 1..n |-> Account(i - 1, f[i][1], f[i][2])] :
               f \in [1..n -> BOOLEAN \X BOOLEAN]} : n \in 0..MaxScenarioAccounts}

(* Authority-type selectors: the four the arm matches, the first value     *)
(* past them and the largest byte.                                         *)
Selectors == {0, 1, 2, 3, 4, 255}

(* A 32-byte address whose bytes all differ from the option flag.          *)
NewAuthority == [i \in 1..32 |-> 100 + i]

(* Set-authority buffers: the discriminator, the selector, and then        *)
(* nothing, the new authority, or (as test_set_authority builds it) an     *)
(* option flag, alone or followed by the new authority.                    *)
SetAuthorityBuffers ==
    {<<TOKEN_SET_AUTHORITY, sel>> \o tail :
        sel \in Selectors,
        tail \in {<<>>, NewAuthority, <<0>>, <<1>>,
                  <<0>> \o NewAuthority, <<1>> \o NewAuthority}}

(* Buffers whose payload is long enough for every arm, and the empty one.  *)
LongBuffers ==
    {<<>>} \cup {<<d>> \o Payload(48 + MaxTrailing, fill) :
                    d \in FirstBytes, fill \in Fills}

(* What the caller is left with besides the accounts: the result, and for  *)
(* the record the handler that ran, the invocation made and the checks.    *)
Report(o) ==
    [result |-> o.result, handler |-> o.handler, handed |-> o.handed,
     passed |-> o.passed, cpi |-> o.cpi, checks |-> o.checks]

NoOut ==
    [result |-> "none", handler |-> "none", handed |-> <<>>, passed |-> NoArgs,
     cpi |-> <<>>, checks |-> <<>>]

(* The with-seed handlers are public (lib.rs re-exports them) but no arm   *)
(* of the dispatcher calls them: a caller reaches them directly, with      *)
(* arguments it parsed itself.                                             *)
(* The signer seeds a caller may hold for a call (&[Signer]): none, or one  *)
(* set of seeds.                                                           *)
ProofSets == {<<>>, <<"seeds">>}

SeedHandlers ==
    {"process_allocate_with_seed", "process_assign_with_seed",
     "process_create_account_with_seed", "process_transfer_with_seed"}

call_handler(h, accts, signers, cpi) ==
    LET seed == "seed"
        lamports == from_le_bytes(Payload(8, 1))
        space == from_le_bytes(Payload(8, 7))
        owner == Payload(32, 1)
        o == CASE h = "process_allocate_with_seed" ->
                    process_allocate_with_seed(accts, seed, space, owner, signers, cpi)
               [] h = "process_assign_with_seed" ->
                    process_assign_with_seed(accts, seed, owner, signers, cpi)
               [] h = "process_create_account_with_seed" ->
                    process_create_account_with_seed(accts, seed, lamports, space,
                                                     owner, signers, cpi)
               [] h = "process_transfer_with_seed" ->
                    process_transfer_with_seed(accts, lamports, seed, owner, signers, cpi)
    IN  [o EXCEPT !.handler = h]

-----------------------------------------------------------------------------
(* The state machine: the host calls the entrypoint (or a caller a public  *)
(* handler), the call runs to completion, the caller takes the result.     *)

Init ==
    /\ pc = "idle"
    /\ instruction_data = <<>>
    /\ accounts = <<>>
    /\ entry_accounts = <<>>
    /\ out = NoOut
    /\ authorization_proofs = <<>>
    /\ ledger = [a \in 0..(MaxAccounts - 1) |-> 0]
    /\ calls = 0

(* One call of the entrypoint, run to completion, by a caller that holds   *)
(* the signer seeds proofs.  The entrypoint has no parameter for them.     *)
Dispatch(accts, data, proofs) ==
    /\ pc = "idle"
    /\ authorization_proofs' = proofs
    /\ UNCHANGED <<ledger, calls>>
    /\ \E cpi \in CpiResults :
          LET o == process_instruction(accts, data, cpi)
          IN  /\ instruction_data' = data
              /\ entry_accounts' = accts
              /\ accounts' = o.accounts
              /\ out' = Report(o)
    /\ pc' = "done"

(* Every account list, with the buffers long enough for every arm.         *)
DispatchAnyAccounts ==
    /\ pc = "idle"
    /\ \E accts \in AccountLists, data \in LongBuffers : Dispatch(accts, data, <<>>)

(* Every buffer, with the uniform account lists.                           *)
DispatchAnyBuffer ==
    /\ pc = "idle"
    /\ \E accts \in UniformAccountLists, data \in Buffers : Dispatch(accts, data, <<>>)

(* The call test_transfer makes: the buffer is the discriminator followed  *)
(* by amount.to_le_bytes().                                                *)
DispatchTransfer ==
    /\ pc = "idle"
    /\ \E accts \in ScenarioAccountLists, amount \in Amounts :
          Dispatch(accts, <<SYS_TRANSFER>> \o to_le_bytes(amount), <<>>)

(* The calls of set-authority, one per selector and buffer shape.          *)
DispatchSetAuthority ==
    /\ pc = "idle"
    /\ \E accts \in ScenarioAccountLists, data \in SetAuthorityBuffers :
          Dispatch(accts, data, <<>>)

(* Calls of the entrypoint by a caller that holds signer seeds: one        *)
(* opcode whose handler takes signers from each family, and one whose      *)
(* handler takes none.                                                     *)
DispatchWithProofs ==
    /\ pc = "idle"
    /\ \E accts \in ScenarioAccountLists,
          data \in {<<SYS_TRANSFER>> \o to_le_bytes(<<16960, 15, 0, 0>>),
                    <<SYS_UPDATE_NONCE>>, <<TOKEN_REVOKE>>},
          proofs \in ProofSets \ {<<>>} :
          Dispatch(accts, data, proofs)

(* A direct call of a public handler with the signers the caller holds.    *)
Call(h, accts, signers) ==
    /\ pc = "idle"
    /\ \E cpi \in CpiResults :
          LET o == call_handler(h, accts, signers, cpi)
          IN  /\ entry_accounts' = accts
              /\ accounts' = o.accounts
              /\ out' = Report(o)
    /\ authorization_proofs' = signers
    /\ instruction_data' = <<>>
    /\ pc' = "called"
    /\ UNCHANGED <<ledger, calls>>

CallHandler ==
    /\ pc = "idle"
    /\ \E h \in SeedHandlers, accts \in AccountLists : Call(h, accts, <<>>)

CallHandlerWithProofs ==
    /\ pc = "idle"
    /\ \E h \in SeedHandlers, accts \in ScenarioAccountLists,
          signers \in ProofSets \ {<<>>} :
          Call(h, accts, signers)

Return ==
    /\ pc \in {"done", "called"}
    /\ pc' = "idle"
    /\ instruction_data' = <<>>
    /\ accounts' = <<>>
    /\ entry_accounts' = <<>>
    /\ out' = NoOut
    /\ authorization_proofs' = <<>>
    /\ UNCHANGED <<ledger, calls>>

Next ==
    \/ DispatchAnyAccounts
    \/ DispatchAnyBuffer
    \/ DispatchTransfer
    \/ DispatchSetAuthority
    \/ DispatchWithProofs
    \/ CallHandler
    \/ CallHandlerWithProofs
    \/ Return

Spec == Init /\ [][Next]_vars

-----------------------------------------------------------------------------
(* Sequences of calls against one ledger.  What outlives a call is what    *)
(* the invoked programs wrote to the accounts; the program itself has no   *)
(* statics.  Each call is handed the accounts as the ledger holds them,    *)
(* with the flags of that call's instruction.                              *)

SeqAccountLists ==
    {a \in ScenarioAccountLists : Len(a) <= 2}

SeqBuffers ==
    {<<>>, <<36>>, <<SYS_UPDATE_NONCE>>, <<TOKEN_REVOKE>>, <<TOKEN_SYNC_NATIVE>>,
     <<TOKEN_SET_AUTHORITY, 7>>, <<TOKEN_INIT_MINT, 9>>,
     <<SYS_TRANSFER>> \o to_le_bytes(<<16960, 15, 0, 0>>)}

(* The accounts of a call as the host loads them from the ledger.          *)
Load(accts) ==
    [i \in DOMAIN accts |-> [accts[i] EXCEPT !.data = ledger[accts[i].address]]]

(* The ledger after a call that left its accounts as after.                *)
Store(after) ==
    [a \in DOMAIN ledger |->
        IF \E i \in DOMAIN after : after[i].address = a
        THEN after[CHOOSE i \in DOMAIN after : after[i].address = a].data
        ELSE ledger[a]]

SeqDispatch ==
    /\ pc = "idle"
    /\ calls < MaxCalls
    /\ \E accts \in SeqAccountLists, data \in SeqBuffers, cpi \in CpiResults :
          LET o == process_instruction(Load(accts), data, cpi)
          IN  /\ instruction_data' = data
              /\ entry_accounts' = Load(accts)
              /\ accounts' = o.accounts
              /\ out' = Report(o)
              /\ ledger' = Store(o.accounts)
    /\ calls' = calls + 1
    /\ authorization_proofs' = <<>>
    /\ pc' = "done"

(* The caller takes the result; the ledger stays.                          *)
SeqReturn ==
    /\ pc = "done"
    /\ pc' = "idle"
    /\ instruction_data' = <<>>
    /\ accounts' = <<>>
    /\ entry_accounts' = <<>>
    /\ out' = NoOut
    /\ authorization_proofs' = <<>>
    /\ UNCHANGED <<ledger, calls>>

SeqNext == SeqDispatch \/ SeqReturn

SpecSeq == Init /\ [][SeqNext]_vars

-----------------------------------------------------------------------------
(* The design document's vocabulary, used to state the properties.         *)

TableDiscriminators == (0..12) \cup (20..35)

SeedDiscriminators == {4, 5, 6, 11}

(* The operation the published discriminator table names for each          *)
(* discriminator, by the handler that implements it.                       *)
PublishedTable ==
    (0 :> "process_assign") @@ (1 :> "process_system_transfer") @@
    (2 :> "process_create_account") @@ (3 :> "process_allocate") @@
    (7 :> "process_advance_nonce_account") @@
    (8 :> "process_withdraw_nonce_account") @@
    (9 :> "process_initialize_nonce_account") @@
    (10 :> "process_authorize_nonce_account") @@
    (12 :> "process_update_nonce_account") @@
    (20 :> "process_initialize_mint") @@ (21 :> "process_initialize_account") @@
    (22 :> "process_token_transfer") @@ (23 :> "process_approve") @@
    (24 :> "process_revoke") @@ (25 :> "process_set_authority") @@
    (26 :> "process_mint_to") @@ (27 :> "process_burn") @@
    (28 :> "process_close_account") @@ (29 :> "process_freeze_account") @@
    (30 :> "process_thaw_account") @@ (31 :> "process_transfer_checked") @@
    (32 :> "process_approve_checked") @@ (33 :> "process_mint_to_checked") @@
    (34 :> "process_burn_checked") @@ (35 :> "process_sync_native")

(* Minimum payload length per opcode.                                      *)
MinPayload(d) ==
    CASE d \in {0, 9, 10} -> 32
      [] d = 2 -> 48
      [] d \in {1, 3, 8, 22, 23, 26, 27} -> 8
      [] d \in {31, 32, 33, 34} -> 9
      [] d \in {20, 25} -> 1
      [] OTHER -> 0

Returned == pc = "done"

Disc == instruction_data[1]

PayloadLen == Len(instruction_data) - 1

Invoked == out.cpi # <<>>

LastCheck == out.checks[Len(out.checks)].check

(* A failure returned before the invocation primitive was reached.         *)
FailedEarly == out.result \notin {Ok, "none"} /\ ~Invoked

(* The failure kinds.  The decode-stage kinds share the value              *)
(* InvalidInstructionData and are told apart by the check that returned.   *)
EmptyInstruction ==
    FailedEarly /\ out.result = InvalidInstructionData /\ LastCheck = "empty"

UnknownOpcode ==
    FailedEarly /\ out.result = InvalidInstructionData /\ LastCheck = "opcode"

PayloadTooShort ==
    FailedEarly /\ out.result = InvalidInstructionData /\ LastCheck = "length"

InvalidFieldValue ==
    FailedEarly /\ out.result = InvalidInstructionData /\ LastCheck = "field"

NotEnoughAccounts ==
    FailedEarly /\ out.result = NotEnoughAccountKeys /\ LastCheck = "count"

MissingSignature ==
    FailedEarly /\ out.result = MissingRequiredSignature /\ LastCheck = "signer"

AccountNotWritable ==
    FailedEarly /\ out.result = InvalidAccountData /\ LastCheck = "writable"

-----------------------------------------------------------------------------
(* C1: a call with an empty instruction buffer fails with                  *)
(* EmptyInstruction whatever the account list, and reaches neither a       *)
(* handler nor the invocation primitive.                                   *)
C1_EmptyBufferFails ==
    (Returned /\ instruction_data = <<>>) =>
        (EmptyInstruction /\ out.handler = "none" /\ ~Invoked)

C1_Witness ==
    /\ Returned /\ instruction_data = <<>>
    /\ Len(entry_accounts) = 2
    /\ entry_accounts[1].is_signer /\ entry_accounts[1].is_writable
    /\ EmptyInstruction

(* C2: a first byte outside 0..12 and 20..35 fails with UnknownOpcode      *)
(* whatever follows it and whatever accounts are supplied; no handler is   *)
(* invoked.                                                                *)
C2_UnknownOpcodeFails ==
    (Returned /\ instruction_data # <<>> /\ Disc \notin TableDiscriminators) =>
        (UnknownOpcode /\ out.handler = "none" /\ ~Invoked)

C2_Witness ==
    /\ Returned /\ instruction_data # <<>> /\ Disc = 36
    /\ PayloadLen >= 48 /\ Len(entry_accounts) = MaxAccounts
    /\ \A i \in DOMAIN entry_accounts :
          entry_accounts[i].is_signer /\ entry_accounts[i].is_writable
    /\ UnknownOpcode

(* C3: every discriminator of the published table reaches exactly the      *)
(* handler the table names for it: a handler that runs is the one named    *)
(* for the discriminator, the seed placeholders run none, and a call that  *)
(* passes the dispatcher's own checks does run the named handler.          *)
C3_RoutedAsPublished ==
    (Returned /\ instruction_data # <<>>) =>
        /\ out.handler # "none" =>
              (Disc \in DOMAIN PublishedTable /\ out.handler = PublishedTable[Disc])
        /\ Disc \in SeedDiscriminators => out.handler = "none"
        /\ out.handler # "none" =>
              \A d \in DOMAIN PublishedTable :
                  PublishedTable[d] = out.handler => d = Disc
        /\ ( /\ Disc \in DOMAIN PublishedTable
             /\ PayloadLen >= 48
             /\ Len(entry_accounts) >= 3
             /\ Disc = 25 => At(instruction_data, 1) \in 0..3 )
           => out.handler = PublishedTable[Disc]

C3_Witness ==
    /\ Returned /\ instruction_data # <<>> /\ Disc = 24
    /\ out.handler = "process_revoke"
    /\ Invoked /\ out.cpi[1].ix = "Revoke"

(* C4: for every recognized non-seed opcode a payload shorter than the     *)
(* opcode's minimum fails with PayloadTooShort before any handler runs,    *)
(* and a payload of at least the minimum never fails with PayloadTooShort. *)
C4_PayloadMinimum ==
    (Returned /\ instruction_data # <<>> /\ Disc \in DOMAIN PublishedTable) =>
        IF PayloadLen < MinPayload(Disc)
        THEN PayloadTooShort /\ out.handler = "none" /\ ~Invoked
        ELSE ~PayloadTooShort

C4_Witness ==
    /\ Returned /\ instruction_data # <<>> /\ Disc = 2
    /\ PayloadLen = 47 /\ Len(entry_accounts) >= 2
    /\ PayloadTooShort

(* C5: the one-byte buffer [discriminator] fails with PayloadTooShort when *)
(* the opcode's minimum payload length exceeds 0; otherwise it passes      *)
(* decoding: no decode-stage failure, the named handler runs (the seed     *)
(* placeholders return success).                                           *)
C5_BareDiscriminator ==
    (Returned /\ Len(instruction_data) = 1 /\ Disc \in TableDiscriminators) =>
        IF MinPayload(Disc) > 0
        THEN PayloadTooShort
        ELSE /\ out.result # InvalidInstructionData
             /\ IF Disc \in SeedDiscriminators
                THEN out.result = Ok /\ out.handler = "none"
                ELSE out.handler = PublishedTable[Disc]

C5_Witness ==
    /\ Returned /\ instruction_data = <<12>>
    /\ out.handler = "process_update_nonce_account"
    /\ Invoked /\ out.result = Ok

-----------------------------------------------------------------------------
(* The account contract of each operation, by handler: the number of       *)
(* accounts it needs and the flags it requires, as <<index, flag>>.        *)

MinAccounts(h) ==
    CASE h \in {"process_assign", "process_allocate",
                "process_update_nonce_account", "process_sync_native"} -> 1
      [] h \in {"process_system_transfer", "process_create_account",
                "process_authorize_nonce_account", "process_revoke",
                "process_set_authority", "process_allocate_with_seed",
                "process_assign_with_seed"} -> 2
      [] h \in {"process_approve_checked", "process_transfer_checked",
                "process_initialize_account"} -> 4
      [] h = "process_withdraw_nonce_account" -> 5
      [] OTHER -> 3

Required(h) ==
    CASE h \in {"process_assign", "process_allocate",
                "process_create_account_with_seed"} -> {<<0, "signer">>}
      [] h = "process_system_transfer" ->
            {<<0, "signer">>, <<0, "writable">>, <<1, "writable">>}
      [] h = "process_create_account" -> {<<0, "signer">>, <<1, "signer">>}
      [] h \in {"process_allocate_with_seed", "process_assign_with_seed"} ->
            {<<1, "signer">>}
      [] h = "process_transfer_with_seed" ->
            {<<0, "writable">>, <<1, "signer">>, <<2, "writable">>}
      [] h = "process_withdraw_nonce_account" ->
            {<<0, "writable">>, <<1, "writable">>, <<4, "signer">>}
      [] h \in {"process_initialize_nonce_account", "process_update_nonce_account",
                "process_sync_native", "process_initialize_mint",
                "process_initialize_account"} -> {<<0, "writable">>}
      [] h \in {"process_authorize_nonce_account", "process_revoke",
                "process_set_authority"} -> {<<0, "writable">>, <<1, "signer">>}
      [] h \in {"process_advance_nonce_account", "process_token_transfer",
                "process_approve", "process_freeze_account",
                "process_thaw_account"} -> {<<0, "writable">>, <<2, "signer">>}
      [] h \in {"process_mint_to", "process_burn", "process_burn_checked",
                "process_close_account", "process_mint_to_checked"} ->
            {<<0, "writable">>, <<1, "writable">>, <<2, "signer">>}
      [] h = "process_approve_checked" -> {<<0, "writable">>, <<3, "signer">>}
      [] h = "process_transfer_checked" ->
            {<<0, "writable">>, <<2, "writable">>, <<3, "signer">>}

(* Whether the account list the call was given satisfies requirement r.    *)
Satisfied(r) ==
    IF r[2] = "signer"
    THEN Acc(entry_accounts, r[1]).is_signer
    ELSE Acc(entry_accounts, r[1]).is_writable

Violated(h) == {r \in Required(h) : ~Satisfied(r)}

KindOf(flag) ==
    IF flag = "signer" THEN MissingRequiredSignature ELSE InvalidAccountData

(* The handler the published table names for the call's discriminator.     *)
Named == PublishedTable[Disc]

(* The call's payload passes the decode stage: long enough, and for        *)
(* set-authority a recognized authority-type selector.                     *)
DecodePasses ==
    /\ PayloadLen >= MinPayload(Disc)
    /\ Disc = 25 => At(instruction_data, 1) \in 0..3

-----------------------------------------------------------------------------
(* C6 (as claimed): for every opcode that requires N accounts, a call with *)
(* fewer than N accounts fails with NotEnoughAccounts, whatever the        *)
(* payload and whatever the flags of the accounts present.                 *)
C6_TooFewAccountsAlways ==
    ( /\ Returned /\ instruction_data # <<>>
      /\ Disc \in DOMAIN PublishedTable
      /\ Len(entry_accounts) < MinAccounts(Named) )
    => NotEnoughAccounts

(* The same with a payload that passes the decode stage: init-mint alone   *)
(* still departs from it.                                                  *)
C6_TooFewAccountsDecoded ==
    ( /\ Returned /\ instruction_data # <<>>
      /\ Disc \in DOMAIN PublishedTable
      /\ DecodePasses
      /\ Len(entry_accounts) < MinAccounts(Named) )
    => NotEnoughAccounts

(* What the code does hold to: with a payload that passes the decode       *)
(* stage, too few accounts is NotEnoughAccounts for every opcode but       *)
(* init-mint, which reports InvalidInstructionData from its count check.   *)
C6_ExceptInitMint ==
    ( /\ Returned /\ instruction_data # <<>>
      /\ Disc \in DOMAIN PublishedTable
      /\ DecodePasses
      /\ Len(entry_accounts) < MinAccounts(Named) )
    => IF Disc = 20
       THEN FailedEarly /\ out.result = InvalidInstructionData /\ LastCheck = "count"
       ELSE NotEnoughAccounts

(* C7 (as claimed): the steps run in the order empty check, opcode lookup, *)
(* payload check, account count, capability checks, invocation, and the    *)
(* failure reported is that of the first step that fails.                  *)
C7_EarliestStepReported ==
    Returned =>
        IF instruction_data = <<>> THEN EmptyInstruction
        ELSE IF Disc \notin TableDiscriminators THEN UnknownOpcode
        ELSE IF Disc \in SeedDiscriminators THEN out.result = Ok /\ ~Invoked
        ELSE IF PayloadLen < MinPayload(Disc) THEN PayloadTooShort
        ELSE IF ~DecodePasses THEN InvalidFieldValue
        ELSE IF Len(entry_accounts) < MinAccounts(Named) THEN NotEnoughAccounts
        ELSE IF Violated(Named) # {} THEN MissingSignature \/ AccountNotWritable
        ELSE Invoked

(* The order itself is kept everywhere; only the value init-mint's count   *)
(* check returns is not the account-count failure.                         *)
C7_OrderExceptInitMintValue ==
    Returned =>
        IF instruction_data = <<>> THEN EmptyInstruction
        ELSE IF Disc \notin TableDiscriminators THEN UnknownOpcode
        ELSE IF Disc \in SeedDiscriminators THEN out.result = Ok /\ ~Invoked
        ELSE IF PayloadLen < MinPayload(Disc) THEN PayloadTooShort
        ELSE IF ~DecodePasses THEN InvalidFieldValue
        ELSE IF Len(entry_accounts) < MinAccounts(Named)
             THEN IF Disc = 20
                  THEN FailedEarly /\ out.result = InvalidInstructionData
                       /\ LastCheck = "count"
                  ELSE NotEnoughAccounts
        ELSE IF Violated(Named) # {} THEN MissingSignature \/ AccountNotWritable
        ELSE Invoked

(* C8: capability checks run in ascending account-index order and stop at  *)
(* the first that fails: when a handler has the accounts it needs and some *)
(* required flags are missing, the one failure reported is that of a       *)
(* violated requirement with the lowest index, MissingSignature for a      *)
(* signer flag and AccountNotWritable for a writable flag, and every check *)
(* made before it was at an index no higher.                               *)
C8_LowestIndexFirst ==
    ( /\ pc \in {"done", "called"}
      /\ out.handler # "none"
      /\ Len(entry_accounts) >= MinAccounts(out.handler)
      /\ Violated(out.handler) # {} )
    => LET low == CHOOSE r \in Violated(out.handler) :
                      \A q \in Violated(out.handler) : r[1] <= q[1]
           last == out.checks[Len(out.checks)]
       IN  /\ FailedEarly
           /\ last.index = low[1]
           /\ <<last.index, last.check>> \in Violated(out.handler)
           /\ out.result = KindOf(last.check)
           /\ \A k \in DOMAIN out.checks : out.checks[k].index <= last.index

C8_Witness ==
    /\ Returned /\ instruction_data # <<>> /\ Disc = 8
    /\ out.handler = "process_withdraw_nonce_account"
    /\ Len(entry_accounts) = 5
    /\ Cardinality(Violated(out.handler)) = 3
    /\ AccountNotWritable
    /\ out.checks[Len(out.checks)].index = 0

(* C9: the invocation primitive is reached only after validation has       *)
(* succeeded: buffer not empty, opcode recognized, payload long enough     *)
(* and decodable, enough accounts, every required flag present; and it is  *)
(* reached once.                                                           *)
C9_InvokeOnlyAfterValidation ==
    (Returned /\ Invoked) =>
        /\ instruction_data # <<>>
        /\ Disc \in DOMAIN PublishedTable
        /\ out.handler = Named
        /\ DecodePasses
        /\ Len(entry_accounts) >= MinAccounts(Named)
        /\ Violated(Named) = {}
        /\ Len(out.cpi) = 1
        /\ out.result \in CpiResults

C9_Witness ==
    /\ Returned /\ Invoked /\ instruction_data # <<>> /\ Disc = 27
    /\ out.cpi[1].ix = "Burn"
    /\ out.result = Ok
    /\ ~entry_accounts[2].is_signer

(* C10: when the call fails before the invocation primitive is reached,    *)
(* every account is as it was when the call was made: flags, data and      *)
(* lamports.                                                               *)
C10_FailureLeavesAccounts ==
    (Returned /\ FailedEarly) => accounts = entry_accounts

C10_Witness ==
    /\ Returned /\ FailedEarly /\ instruction_data # <<>> /\ Disc = 1
    /\ out.handler = "process_system_transfer"
    /\ AccountNotWritable
    /\ out.checks[Len(out.checks)].index = 1
    /\ accounts = entry_accounts

(* C11: when the invocation primitive is reached, the call returns exactly *)
(* what the primitive returned, success or failure, and the primitive is   *)
(* reached at most once per call: a failure is neither retried nor turned  *)
(* into success.                                                           *)
C11_ResultPropagated ==
    Returned =>
        /\ Len(out.cpi) <= 1
        /\ Invoked => out.result = out.cpi[1].result

C11_Witness ==
    /\ Returned /\ Invoked /\ instruction_data # <<>> /\ Disc = 24
    /\ out.cpi[1].ix = "Revoke"
    /\ out.cpi[1].result = Custom
    /\ out.result = Custom
    /\ accounts = entry_accounts

(* C12: for the four seed discriminators (4, 5, 6, 11) the call returns    *)
(* success for every payload, empty or long, and every account list and    *)
(* flag combination; no handler runs, the invocation primitive is not      *)
(* reached and the accounts are left as they were.                         *)
C12_SeedArmsNoOp ==
    (Returned /\ instruction_data # <<>> /\ Disc \in SeedDiscriminators) =>
        /\ out.result = Ok
        /\ out.handler = "none"
        /\ ~Invoked
        /\ accounts = entry_accounts

C12_Witness ==
    /\ Returned /\ instruction_data # <<>> /\ Disc = 11
    /\ PayloadLen = 0
    /\ entry_accounts = <<>>
    /\ out.result = Ok /\ ~Invoked

(* C13: for the balance-transfer opcode (1) the amount handed to the        *)
(* handler is the unsigned 64-bit value whose little-endian encoding is    *)
(* payload bytes 0..8: re-encoding the decoded amount gives those 8 bytes, *)
(* and for every amount x, decoding the encoding of x gives x.             *)
C13_AmountRoundTrip ==
    (Returned /\ instruction_data # <<>> /\ Disc = 1 /\ Invoked) =>
        LET bytes == Slice(instruction_data, 1, 9)
            amount == out.cpi[1].args.lamports[1]
        IN  /\ amount \in [1..4 -> 0..65535]
            /\ to_le_bytes(amount) = bytes
            /\ from_le_bytes(to_le_bytes(amount)) = amount
            /\ \A x \in Amounts : from_le_bytes(to_le_bytes(x)) = x

C13_Witness ==
    /\ Returned /\ instruction_data # <<>> /\ Disc = 1 /\ Invoked
    /\ PayloadLen = 8
    /\ Slice(instruction_data, 1, 9) = <<0, 1, 255, 255, 0, 0, 0, 1>>
    /\ out.cpi[1].args.lamports = Some(<<256, 65535, 0, 256>>)

(* C14: with a payload of at least 8 bytes, balance-transfer (opcode 1)    *)
(* reaches the invocation primitive if and only if at least 2 accounts are *)
(* supplied, account 0 is a signer and writable and account 1 is writable; *)
(* with 2 accounts, a missing signer flag on account 0 is MissingSignature *)
(* and, the signer flag present, a missing writable flag on account 0 or 1 *)
(* is AccountNotWritable.                                                  *)
C14_TransferCapabilities ==
    (Returned /\ instruction_data # <<>> /\ Disc = 1 /\ PayloadLen >= 8) =>
        LET n == Len(entry_accounts)
            a0 == Acc(entry_accounts, 0)
            a1 == Acc(entry_accounts, 1)
        IN  /\ Invoked <=>
                  (n >= 2 /\ a0.is_signer /\ a0.is_writable /\ a1.is_writable)
            /\ Invoked => out.cpi[1].ix = "system::Transfer"
            /\ n < 2 => NotEnoughAccounts
            /\ (n >= 2 /\ ~a0.is_signer) => MissingSignature
            /\ (n >= 2 /\ a0.is_signer /\ ~(a0.is_writable /\ a1.is_writable))
                  => AccountNotWritable

C14_Witness ==
    /\ Returned /\ instruction_data # <<>> /\ Disc = 1 /\ PayloadLen >= 8
    /\ Len(entry_accounts) = 2
    /\ Acc(entry_accounts, 0).is_signer /\ Acc(entry_accounts, 0).is_writable
    /\ Acc(entry_accounts, 1).is_signer /\ ~Acc(entry_accounts, 1).is_writable
    /\ AccountNotWritable
    /\ out.checks[Len(out.checks)] = W(1)

(* C15: the buffer [1, amount as 8 little-endian bytes] with account 0     *)
(* signer and writable and account 1 writable only, with or without more   *)
(* accounts after them, reaches the invocation primitive exactly once,     *)
(* with the decoded amount, and fails no capability check.                 *)
C15_TransferEndToEnd ==
    ( /\ Returned /\ instruction_data # <<>> /\ Disc = 1 /\ PayloadLen = 8
      /\ Len(entry_accounts) >= 2
      /\ Acc(entry_accounts, 0).is_signer /\ Acc(entry_accounts, 0).is_writable
      /\ ~Acc(entry_accounts, 1).is_signer /\ Acc(entry_accounts, 1).is_writable )
    => /\ Len(out.cpi) = 1
       /\ out.cpi[1].ix = "system::Transfer"
       /\ out.cpi[1].metas = <<0, 1>>
       /\ out.cpi[1].args.lamports # None
       /\ to_le_bytes(out.cpi[1].args.lamports[1]) = Slice(instruction_data, 1, 9)
       /\ out.result = out.cpi[1].result
       /\ out.result \notin {MissingRequiredSignature, InvalidAccountData,
                              NotEnoughAccountKeys, InvalidInstructionData}
       /\ out.checks = <<ChkEmpty, ChkOpcode, ChkLength, Decode("lamports"),
                         ChkCount, S(0), W(0), W(1)>>

C15_Witness ==
    /\ Returned /\ instruction_data = <<1, 64, 66, 15, 0, 0, 0, 0, 0>>
    /\ Len(entry_accounts) = 3
    /\ Acc(entry_accounts, 0).is_signer /\ Acc(entry_accounts, 0).is_writable
    /\ ~Acc(entry_accounts, 1).is_signer /\ Acc(entry_accounts, 1).is_writable
    /\ ~Acc(entry_accounts, 2).is_signer /\ ~Acc(entry_accounts, 2).is_writable
    /\ Len(out.cpi) = 1
    /\ out.cpi[1].args.lamports = Some(<<16960, 15, 0, 0>>)
    /\ out.result = Ok

(* The names of the payload fields the dispatcher decodes.                 *)
PayloadFields ==
    {"lamports", "space", "owner", "authority", "new_authority", "amount",
     "decimals"}

(* The steps of the call that bound a payload field to a value.            *)
DecodeSteps == {k \in DOMAIN out.checks : out.checks[k].check \in PayloadFields}

(* C16 (as claimed): the buffer [31, amount as 8 little-endian bytes,      *)
(* decimals] with only 2 accounts fails with NotEnoughAccounts, and the    *)
(* failure is decided before the amount and the decimals are decoded: no   *)
(* payload field is read on the way to it.                                 *)
C16_CountBeforeDecode ==
    ( /\ Returned /\ instruction_data # <<>> /\ Disc = 31 /\ PayloadLen = 9
      /\ Len(entry_accounts) = 2 )
    => (NotEnoughAccounts /\ DecodeSteps = {})

(* What the code does: the same call fails with NotEnoughAccounts, from    *)
(* the handler's first check, after the arm has decoded both fields.       *)
C16_CountAfterDecode ==
    ( /\ Returned /\ instruction_data # <<>> /\ Disc = 31 /\ PayloadLen = 9
      /\ Len(entry_accounts) = 2 )
    => /\ NotEnoughAccounts
       /\ out.handler = "process_transfer_checked"
       /\ out.checks = <<ChkEmpty, ChkOpcode, ChkLength,
                         Decode("amount"), Decode("decimals"), ChkCount>>

C16_Reached ==
    /\ Returned /\ instruction_data # <<>> /\ Disc = 31 /\ PayloadLen = 9
    /\ Len(entry_accounts) = 2
    /\ NotEnoughAccounts

(* C17: with a payload of at least 9 bytes, transfer-checked (opcode 31)   *)
(* reaches the invocation primitive if and only if at least 4 accounts are *)
(* supplied, accounts 0 and 2 are writable and account 3 is a signer; the  *)
(* flags of account 1 (the mint) decide nothing.                           *)
C17_TransferCheckedCapabilities ==
    (Returned /\ instruction_data # <<>> /\ Disc = 31 /\ PayloadLen >= 9) =>
        LET n == Len(entry_accounts)
        IN  /\ Invoked <=>
                  /\ n >= 4
                  /\ Acc(entry_accounts, 0).is_writable
                  /\ Acc(entry_accounts, 2).is_writable
                  /\ Acc(entry_accounts, 3).is_signer
            /\ Invoked => /\ out.cpi[1].ix = "TransferChecked"
                          /\ out.cpi[1].metas = <<0, 1, 2, 3>>
            /\ \A k \in DOMAIN out.checks : out.checks[k].index # 1

C17_Witness ==
    /\ Returned /\ instruction_data # <<>> /\ Disc = 31 /\ PayloadLen >= 9
    /\ Len(entry_accounts) = 5
    /\ ~Acc(entry_accounts, 1).is_signer /\ ~Acc(entry_accounts, 1).is_writable
    /\ ~Acc(entry_accounts, 0).is_signer /\ ~Acc(entry_accounts, 3).is_writable
    /\ Invoked /\ out.cpi[1].ix = "TransferChecked"
    /\ out.result = Ok

C19_RevokeAndSetAuthorityCapabilities ==
    ( /\ Returned /\ instruction_data # <<>>
      /\ Disc \in {24, 25} /\ DecodePasses )
    => LET n == Len(entry_accounts)
       IN  /\ Invoked <=> /\ n >= 2
                          /\ Acc(entry_accounts, 0).is_writable
                          /\ Acc(entry_accounts, 1).is_signer
           /\ Invoked =>
                  out.cpi[1].ix = (IF Disc = 24 THEN "Revoke" ELSE "SetAuthority")
           /\ n < 2 => NotEnoughAccounts
           /\ (n >= 2 /\ ~Acc(entry_accounts, 0).is_writable) =>
                  (AccountNotWritable /\ out.checks[Len(out.checks)] = W(0))
           /\ ( /\ n >= 2 /\ Acc(entry_accounts, 0).is_writable
                /\ ~Acc(entry_accounts, 1).is_signer ) =>
                  (MissingSignature /\ out.checks[Len(out.checks)] = S(1))

C19_Witness ==
    /\ Returned /\ instruction_data # <<>> /\ Disc = 25 /\ DecodePasses
    /\ Len(entry_accounts) = 2
    /\ ~Acc(entry_accounts, 0).is_writable /\ ~Acc(entry_accounts, 1).is_signer
    /\ out.handler = "process_set_authority"
    /\ AccountNotWritable
    /\ out.checks[Len(out.checks)] = W(0)

(* The authority kinds the selector values stand for.                      *)
SelectorMeaning ==
    <<"MintTokens", "FreezeAccount", "AccountOwner", "CloseAccount">>

(* C20: for set-authority (opcode 25) with a non-empty payload, a first    *)
(* payload byte that is not 0, 1, 2 or 3 fails with InvalidFieldValue and  *)
(* never reaches the handler, whatever the account list; the selectors 0,  *)
(* 1, 2, 3 reach the handler as MintTokens, FreezeAccount, AccountOwner    *)
(* and CloseAccount.                                                       *)
C20_AuthoritySelector ==
    (Returned /\ instruction_data # <<>> /\ Disc = 25 /\ PayloadLen >= 1) =>
        LET sel == At(instruction_data, 1)
        IN  IF sel \notin 0..3
            THEN InvalidFieldValue /\ out.handler = "none" /\ ~Invoked
            ELSE /\ ~InvalidFieldValue
                 /\ out.handler = "process_set_authority"
                 /\ Invoked =>
                       out.cpi[1].args.authority_type = Some(SelectorMeaning[sel + 1])

C20_Witness ==
    /\ Returned /\ instruction_data # <<>> /\ Disc = 25
    /\ PayloadLen >= 1
    /\ At(instruction_data, 1) = 4
    /\ Len(entry_accounts) = 3
    /\ Acc(entry_accounts, 0).is_writable /\ Acc(entry_accounts, 1).is_signer
    /\ InvalidFieldValue

(* A valid selector on its way through: selector 3 invoked as CloseAccount. *)
C20_SelectorThreeReached ==
    /\ Returned /\ instruction_data # <<>> /\ Disc = 25
    /\ PayloadLen >= 1
    /\ At(instruction_data, 1) = 3
    /\ Invoked
    /\ out.cpi[1].args.authority_type = Some("CloseAccount")

(* C21 (as claimed): for set-authority with the wire format                *)
(* [discriminator, authority_type, option_flag, new_authority] the new     *)
(* authority handed to the handler is gated by the flag: with flag 1 it is *)
(* the 32 bytes that follow the flag, and with flag 0, or no key, it is    *)
(* None.                                                                   *)
C21_NewAuthorityGatedByFlag ==
    ( /\ Returned /\ instruction_data # <<>> /\ Disc = 25 /\ Invoked
      /\ PayloadLen \in {1, 2, 34}
      /\ PayloadLen >= 2 => At(instruction_data, 2) \in {0, 1} )
    => out.cpi[1].args.new_authority =
          IF PayloadLen = 34 /\ At(instruction_data, 2) = 1
          THEN Some(Slice(instruction_data, 3, 35))
          ELSE None

(* What the code does: the new authority is gated by the payload's length  *)
(* alone, and is the 32 bytes that follow the selector, flag included.     *)
C21_NewAuthorityByLength ==
    (Returned /\ instruction_data # <<>> /\ Disc = 25 /\ Invoked) =>
        out.cpi[1].args.new_authority =
            IF PayloadLen >= 33
            THEN Some(Slice(instruction_data, 2, 34))
            ELSE None

(* The call of test_set_authority, invoked with the flag as first byte of  *)
(* the new authority.                                                      *)
C21_Reached ==
    /\ Returned /\ instruction_data = <<25, 0, 1>> \o NewAuthority
    /\ Invoked
    /\ out.cpi[1].args.new_authority = Some(<<1>> \o Slice(NewAuthority, 0, 31))

(* C22 (as claimed): the authorization proofs the caller of dispatch holds *)
(* reach the invocation primitive of the dispatched opcode unexamined and  *)
(* unchanged, and are consumed at most once per call.                      *)
C22_ProofsForwarded ==
    (Returned /\ Invoked) =>
        /\ Len(out.cpi) = 1
        /\ out.cpi[1].signers = authorization_proofs

(* What the code does: every arm passes the empty signer list, whatever    *)
(* the caller holds; a handler called directly does forward the signers it *)
(* is given, once.                                                         *)
C22_DispatchPassesNone ==
    /\ (Returned /\ Invoked) => (Len(out.cpi) = 1 /\ out.cpi[1].signers = <<>>)
    /\ (pc = "called" /\ Invoked) =>
          (Len(out.cpi) = 1 /\ out.cpi[1].signers = authorization_proofs)

C22_Reached ==
    /\ Returned /\ Invoked /\ instruction_data = <<24>>
    /\ authorization_proofs = <<"seeds">>
    /\ out.cpi[1].ix = "Revoke"
    /\ out.cpi[1].signers = <<>>

C22_HandlerForwards ==
    /\ pc = "called" /\ Invoked
    /\ out.handler = "process_transfer_with_seed"
    /\ authorization_proofs = <<"seeds">>
    /\ out.cpi[1].signers = <<"seeds">>

(* The flags the "### Accounts" list of each handler's doc comment marks:  *)
(* [SIGNER] as a signer requirement, [WRITE] as a writable requirement.    *)
(* For all handlers but the six listed the documented flags are the ones   *)
(* the handler checks.                                                     *)
Documented(h) ==
    CASE h \in {"process_allocate", "process_assign"} ->
            {<<0, "writable">>, <<0, "signer">>}
      [] h = "process_create_account" ->
            {<<0, "writable">>, <<0, "signer">>, <<1, "writable">>, <<1, "signer">>}
      [] h = "process_create_account_with_seed" ->
            {<<0, "writable">>, <<0, "signer">>, <<1, "writable">>, <<2, "signer">>}
      [] h \in {"process_allocate_with_seed", "process_assign_with_seed"} ->
            {<<0, "writable">>, <<1, "signer">>}
      [] OTHER -> Required(h)

(* C23 (as claimed): every public handler reaches the invocation primitive *)
(* only if each account its documented account list marks [SIGNER] is a    *)
(* signer and each account it marks [WRITE] is writable.                   *)
C23_DocumentedFlagsEnforced ==
    (pc \in {"done", "called"} /\ Invoked) =>
        \A r \in Documented(out.handler) : Satisfied(r)

(* What the code does: an invocation implies the flags the handler checks, *)
(* which for allocate, assign, create-account and the three with-seed      *)
(* handlers that document more are fewer than the documented ones.         *)
C23_CheckedFlagsEnforced ==
    (pc \in {"done", "called"} /\ Invoked) =>
        /\ \A r \in Required(out.handler) : Satisfied(r)
        /\ Required(out.handler) \subseteq Documented(out.handler)
        /\ (\E r \in Documented(out.handler) : ~Satisfied(r)) =>
              out.handler \in {"process_allocate", "process_assign",
                               "process_create_account",
                               "process_create_account_with_seed",
                               "process_allocate_with_seed",
                               "process_assign_with_seed"}

(* Create-account-with-seed invoked with a base account (2) that did not   *)
(* sign and a new account (1) that is not writable.                        *)
C23_Reached ==
    /\ pc = "called" /\ Invoked
    /\ out.handler = "process_create_account_with_seed"
    /\ ~Acc(entry_accounts, 2).is_signer
    /\ ~Acc(entry_accounts, 1).is_writable
    /\ out.result = Ok

(* The accounts with the contents they had before any call was made: the  *)
(* same addresses and flags.                                               *)
Fresh(accts) ==
    [i \in DOMAIN accts |-> [accts[i] EXCEPT !.data = 0, !.lamports = 1]]

(* C24: the program keeps no state between calls: in every sequence of     *)
(* calls, what a call decides (its result, the handler it runs, the        *)
(* instruction it invokes with which arguments, the checks it makes) is    *)
(* what the same buffer, account count, addresses and flags decide in a    *)
(* first call, whatever calls came before and whatever they left in the    *)
(* accounts.                                                               *)
C24_DecisionsDependOnInputsOnly ==
    Returned =>
        \E cpi \in CpiResults :
            out = Report(process_instruction(Fresh(entry_accounts),
                                             instruction_data, cpi))

C24_Witness ==
    /\ Returned /\ calls = MaxCalls
    /\ instruction_data = <<TOKEN_SYNC_NATIVE>>
    /\ Len(entry_accounts) = 1
    /\ entry_accounts[1].data = 2
    /\ Invoked /\ out.result = Ok
    /\ accounts[1].data = 3

(* Some check of the call does not pass: the buffer is empty, the first   *)
(* byte is outside the table, the payload fails decoding, the accounts     *)
(* are too few, or a flag the handler tests is missing.                    *)
SomeCheckFails ==
    \/ instruction_data = <<>>
    \/ /\ instruction_data # <<>>
       /\ Disc \notin SeedDiscriminators
       /\ \/ Disc \notin TableDiscriminators
          \/ /\ Disc \in DOMAIN PublishedTable
             /\ \/ ~DecodePasses
                \/ Len(entry_accounts) < MinAccounts(Named)
                \/ Violated(Named) # {}

(* C25: a call returns success only if its discriminator is one of the     *)
(* four seed placeholders or the invocation primitive was invoked exactly  *)
(* once and reported success; and every failure, of any check or of the    *)
(* primitive, is returned as a failure: a call of which some check fails   *)
(* fails without invoking, and a failure reported by the primitive is the  *)
(* failure returned.                                                       *)
C25_SuccessOnlyByInvoke ==
    Returned =>
        /\ out.result = Ok =>
              /\ instruction_data # <<>>
              /\ \/ Disc \in SeedDiscriminators
                 \/ Len(out.cpi) = 1 /\ out.cpi[1].result = Ok
        /\ SomeCheckFails => (out.result # Ok /\ ~Invoked)
        /\ (Invoked /\ out.cpi[1].result # Ok) => out.result = out.cpi[1].result
        /\ Len(out.cpi) <= 1

(* Close-account with both accounts writable and an authority that has not *)
(* signed fails.                                                           *)
C25_Witness ==
    /\ Returned /\ instruction_data # <<>> /\ Disc = TOKEN_CLOSE_ACCOUNT
    /\ Len(entry_accounts) = 3
    /\ entry_accounts[1].is_writable /\ entry_accounts[2].is_writable
    /\ ~entry_accounts[3].is_signer
    /\ MissingSignature

(* A success that is the primitive's.                                      *)
C25_SuccessReached ==
    /\ Returned /\ instruction_data # <<>> /\ Disc = TOKEN_CLOSE_ACCOUNT
    /\ out.result = Ok /\ Len(out.cpi) = 1 /\ out.cpi[1].result = Ok

(* C26: multi-field payloads are decoded from fixed offsets and reach the  *)
(* invoked instruction unchanged: for create-account (2) lamports is the   *)
(* little-endian u64 of payload bytes 0..8, space that of bytes 8..16 and  *)
(* owner the 32 bytes 16..48; for the checked variants (31..34) amount is  *)
(* the little-endian u64 of bytes 0..8 and decimals is byte 8.  The u64    *)
(* values are compared by the bytes a caller encodes them to.              *)
C26_FixedOffsets ==
    (Returned /\ instruction_data # <<>> /\ Invoked) =>
        LET payload == SliceFrom(instruction_data, 1)
            args == out.cpi[1].args
        IN  /\ Disc = 2 =>
                  /\ args.lamports # None /\ args.space # None /\ args.owner # None
                  /\ to_le_bytes(args.lamports[1]) = Slice(payload, 0, 8)
                  /\ to_le_bytes(args.space[1]) = Slice(payload, 8, 16)
                  /\ args.owner[1] = Slice(payload, 16, 48)
            /\ Disc \in 31..34 =>
                  /\ args.amount # None /\ args.decimals # None
                  /\ to_le_bytes(args.amount[1]) = Slice(payload, 0, 8)
                  /\ args.decimals[1] = At(payload, 8)

(* Create-account on a 49-byte payload of bytes 7, 14, 21, ...             *)
C26_Witness ==
    /\ Returned /\ instruction_data # <<>> /\ Disc = 2 /\ Invoked
    /\ PayloadLen = 49
    /\ At(instruction_data, 1) = 7 /\ At(instruction_data, 9) = 63
    /\ out.cpi[1].args.lamports = Some(<<7 + 256 * 14, 21 + 256 * 28,
                                          35 + 256 * 42, 49 + 256 * 56>>)
    /\ out.cpi[1].args.space = Some(<<63 + 256 * 70, 77 + 256 * 84,
                                       91 + 256 * 98, 105 + 256 * 112>>)
    /\ out.cpi[1].args.owner[1][1] = 119

(* Burn-checked on a 9-byte payload: decimals is the ninth byte.           *)
C26_CheckedReached ==
    /\ Returned /\ instruction_data # <<>> /\ Disc = 34 /\ Invoked
    /\ PayloadLen = 9
    /\ out.cpi[1].args.amount = Some(<<1 + 256 * 2, 3 + 256 * 4,
                                        5 + 256 * 6, 7 + 256 * 8>>)
    /\ out.cpi[1].args.decimals = Some(9)

(* The call's buffer cut after the declared fields of its opcode.          *)
DeclaredPart == Slice(instruction_data, 0, 1 + MinPayload(Disc))

(* C27: payload bytes beyond an opcode's declared fields are ignored: for  *)
(* every opcode of the table other than set-authority, a call whose        *)
(* payload has at least the minimum length has the result, the handler,    *)
(* the invoked instruction with its decoded arguments and the accounts     *)
(* afterwards of the call with the same accounts whose buffer ends after   *)
(* the declared fields; so two buffers that agree up to there are treated  *)
(* alike, and [d] and [d, any bytes...] are for the payload-less opcodes.  *)
C27_TrailingBytesIgnored ==
    ( /\ Returned /\ instruction_data # <<>>
      /\ Disc \in TableDiscriminators \ {TOKEN_SET_AUTHORITY}
      /\ PayloadLen >= MinPayload(Disc) )
    => \E cpi \in CpiResults :
          LET o == process_instruction(entry_accounts, DeclaredPart, cpi)
          IN  out = Report(o) /\ accounts = o.accounts

(* Close-account (payload-less) with 49 payload bytes, invoked.            *)
C27_Witness ==
    /\ Returned /\ instruction_data # <<>> /\ Disc = TOKEN_CLOSE_ACCOUNT
    /\ PayloadLen = 49
    /\ DeclaredPart = <<TOKEN_CLOSE_ACCOUNT>>
    /\ Invoked /\ out.cpi[1].ix = "CloseAccount" /\ out.result = Ok

(* Transfer-checked with one byte after its nine, invoked.                 *)
C27_FieldsThenTrailingReached ==
    /\ Returned /\ instruction_data # <<>> /\ Disc = TOKEN_TRANSFER_CHECKED
    /\ PayloadLen = 10 /\ Len(DeclaredPart) = 10
    /\ Invoked /\ out.cpi[1].args.decimals = Some(9)

(* C28: for init-mint (20) the dispatcher itself requires a non-empty      *)
(* payload and at least 3 accounts and returns InvalidInstructionData for  *)
(* either violation (not NotEnoughAccountKeys), before any handler; when   *)
(* both hold it calls the handler with exactly accounts 0 and 1, decimals  *)
(* = payload byte 0, mint authority = the address of account 2 and freeze  *)
(* authority = the address of account 3 exactly when more than 3 accounts  *)
(* are supplied, None otherwise.                                           *)
C28_InitMintArm ==
    (Returned /\ instruction_data # <<>> /\ Disc = TOKEN_INIT_MINT) =>
        IF PayloadLen = 0 \/ Len(entry_accounts) < 3
        THEN /\ out.result = InvalidInstructionData
             /\ out.result # NotEnoughAccountKeys
             /\ out.handler = "none" /\ ~Invoked
        ELSE /\ out.handler = "process_initialize_mint"
             /\ out.handed = <<entry_accounts[1].address, entry_accounts[2].address>>
             /\ out.passed.decimals = Some(At(instruction_data, 1))
             /\ out.passed.mint_authority = Some(entry_accounts[3].address)
             /\ out.passed.freeze_authority =
                    IF Len(entry_accounts) > 3
                    THEN Some(entry_accounts[4].address) ELSE None

(* Four accounts: the fourth is the freeze authority.                      *)
C28_Witness ==
    /\ Returned /\ instruction_data # <<>> /\ Disc = TOKEN_INIT_MINT
    /\ PayloadLen = 1 /\ Len(entry_accounts) = 4
    /\ out.handed = <<0, 1>>
    /\ out.passed.decimals = Some(7)
    /\ out.passed.mint_authority = Some(2)
    /\ out.passed.freeze_authority = Some(3)

(* Three accounts: no freeze authority.                                    *)
C28_NoFreezeReached ==
    /\ Returned /\ instruction_data # <<>> /\ Disc = TOKEN_INIT_MINT
    /\ PayloadLen = 1 /\ Len(entry_accounts) = 3
    /\ out.handler = "process_initialize_mint"
    /\ out.passed.freeze_authority = None

(* Two accounts and a payload: the dispatcher's own count check fails.     *)
C28_TwoAccountsReached ==
    /\ Returned /\ instruction_data # <<>> /\ Disc = TOKEN_INIT_MINT
    /\ PayloadLen = 1 /\ Len(entry_accounts) = 2
    /\ out.result = InvalidInstructionData /\ LastCheck = "count"

(* C29: the values returned do not separate the decode-stage causes: an   *)
(* empty buffer, a first byte outside the table, a payload shorter than    *)
(* the opcode's minimum and an authority-type selector outside 0..3 all    *)
(* return InvalidInstructionData; and every failure of a writable check,   *)
(* whichever account it is about, returns InvalidAccountData, as does      *)
(* every call that passes decoding and the count and lacks only writable   *)
(* flags.                                                                  *)
C29_SharedFailureValues ==
    Returned =>
        /\ instruction_data = <<>> => out.result = InvalidInstructionData
        /\ instruction_data # <<>> =>
              /\ Disc \notin TableDiscriminators =>
                    out.result = InvalidInstructionData
              /\ (Disc \in DOMAIN PublishedTable /\ PayloadLen < MinPayload(Disc)) =>
                    out.result = InvalidInstructionData
              /\ ( /\ Disc = TOKEN_SET_AUTHORITY /\ PayloadLen >= 1
                   /\ At(instruction_data, 1) \notin 0..3 ) =>
                    out.result = InvalidInstructionData
              /\ ( /\ Disc \in DOMAIN PublishedTable /\ DecodePasses
                   /\ Len(entry_accounts) >= MinAccounts(Named)
                   /\ Violated(Named) # {}
                   /\ \A r \in Violated(Named) : r[2] = "writable" ) =>
                    out.result = InvalidAccountData
        /\ (out.checks # <<>> /\ ~Invoked /\ out.result # Ok /\ LastCheck = "writable") =>
              out.result = InvalidAccountData
        /\ (EmptyInstruction \/ UnknownOpcode \/ PayloadTooShort \/ InvalidFieldValue) =>
              out.result = InvalidInstructionData

(* An out-of-range selector returns the value of the other decode causes.  *)
C29_Witness ==
    /\ Returned /\ instruction_data # <<>> /\ Disc = TOKEN_SET_AUTHORITY
    /\ PayloadLen >= 1 /\ At(instruction_data, 1) = 4
    /\ out.result = InvalidInstructionData /\ LastCheck = "field"

C29_EmptyReached ==
    /\ Returned /\ instruction_data = <<>>
    /\ out.result = InvalidInstructionData /\ LastCheck = "empty"

C29_UnknownReached ==
    /\ Returned /\ instruction_data # <<>> /\ Disc = 13
    /\ out.result = InvalidInstructionData /\ LastCheck = "opcode"

C29_ShortReached ==
    /\ Returned /\ instruction_data # <<>> /\ Disc = SYS_TRANSFER
    /\ PayloadLen = 7
    /\ out.result = InvalidInstructionData /\ LastCheck = "length"

(* The same value for a writable flag missing on account 0 and on          *)
(* account 1 of a balance transfer.                                        *)
C29_SourceNotWritableReached ==
    /\ Returned /\ instruction_data # <<>> /\ Disc = SYS_TRANSFER
    /\ Len(entry_accounts) = 2
    /\ entry_accounts[1].is_signer /\ ~entry_accounts[1].is_writable
    /\ entry_accounts[2].is_writable
    /\ out.result = InvalidAccountData /\ out.checks[Len(out.checks)] = W(0)

C29_DestinationNotWritableReached ==
    /\ Returned /\ instruction_data # <<>> /\ Disc = SYS_TRANSFER
    /\ Len(entry_accounts) = 2
    /\ entry_accounts[1].is_signer /\ entry_accounts[1].is_writable
    /\ ~entry_accounts[2].is_writable
    /\ out.result = InvalidAccountData /\ out.checks[Len(out.checks)] = W(1)

(* C30: withdraw-nonce (8) reaches the invocation primitive if and only   *)
(* if the payload has at least 8 bytes, at least 5 accounts are supplied,  *)
(* accounts 0 and 1 are writable and account 4 is a signer, whatever the   *)
(* flags of accounts 2 and 3; and where a writable flag and the signer     *)
(* flag are both missing the failure is the writable one.                  *)
C30_WithdrawNonceCapabilities ==
    (Returned /\ instruction_data # <<>> /\ Disc = SYS_WITHDRAW_NONCE) =>
        /\ Invoked <=>
              /\ PayloadLen >= 8
              /\ Len(entry_accounts) >= 5
              /\ entry_accounts[1].is_writable
              /\ entry_accounts[2].is_writable
              /\ entry_accounts[5].is_signer
        /\ Invoked => out.cpi[1].ix = "WithdrawNonceAccount"
        /\ ( /\ PayloadLen >= 8 /\ Len(entry_accounts) >= 5
             /\ ~entry_accounts[1].is_writable \/ ~entry_accounts[2].is_writable
             /\ ~entry_accounts[5].is_signer )
           => AccountNotWritable

(* Invoked with accounts 2 and 3 carrying no flag at all.                  *)
C30_Witness ==
    /\ Returned /\ instruction_data # <<>> /\ Disc = SYS_WITHDRAW_NONCE
    /\ PayloadLen >= 8 /\ Len(entry_accounts) = 5
    /\ ~entry_accounts[3].is_signer /\ ~entry_accounts[3].is_writable
    /\ ~entry_accounts[4].is_signer /\ ~entry_accounts[4].is_writable
    /\ ~entry_accounts[1].is_signer /\ ~entry_accounts[5].is_writable
    /\ Invoked /\ out.result = Ok

(* The recipient not writable and the authority not signed: the writable   *)
(* failure is the one returned.                                            *)
C30_BothMissingReached ==
    /\ Returned /\ instruction_data # <<>> /\ Disc = SYS_WITHDRAW_NONCE
    /\ PayloadLen >= 8 /\ Len(entry_accounts) = 5
    /\ entry_accounts[1].is_writable /\ ~entry_accounts[2].is_writable
    /\ ~entry_accounts[5].is_signer
    /\ AccountNotWritable /\ out.checks[Len(out.checks)] = W(1)

====
